---- MODULE Spec2Model ----
(***************************************************************************)
(* Model of the MySQL Utilities Test facility (mysql-test/mut.py): the     *)
(* test loop of the __main__ block, its per-test lifecycle hooks, the      *)
(* helpers _report_error and _exec_and_report, and the except/finally      *)
(* teardown of the server pool.                                            *)
(*                                                                         *)
(* A test case is an object of an arbitrary class test(System_test): every *)
(* hook call is a nondeterministic choice among the ways a Python call can *)
(* end (a true value, a false value, a MUTLibError, any other exception).  *)
(***************************************************************************)
EXTENDS Integers, Sequences, FiniteSets, TLC

\* ------------------------------------------------------------------ bounds
MaxTests == 2       \* longest worklist (test_files) explored
MaxServers == 1     \* most servers the test cases spawn in one run
MaxDisabled == 2    \* most rows of the disabled manifest
MaxFiles == 3       \* most files in the directories find_tests walks
MaxArgs == 2        \* most positional arguments on the command line

\* ------------------------------------------------------------- the inputs
\* Test names are sequences of letters (1 = "a", 2 = "b"), so that the
\* prefix tests of --start-test/--stop-test are computed, not assumed: the
\* tests are main.aa, main.b and replication.aa.
TestUniverse ==
    { [suite |-> "main", name |-> <<1, 1>>],
      [suite |-> "main", name |-> <<2>>],
      [suite |-> "replication", name |-> <<1, 1>>] }

\* Values of --start-test / --stop-test; <<>> is the absent option (None),
\* which Python's truth test treats like the empty string.
None == <<>>
Markers == { None, <<1>>, <<2>> }

\* opt.verbosity as counted by add_verbosity
Verbosities == 0..2

\* How a call of a test-case hook can end: with a true value, with a false
\* value, with a MUTLibError, or with any other exception ("Exception", which
\* includes a KeyboardInterrupt delivered while the call is running).
HookResults == { "true", "false", "MUTLibError", "Exception" }

Hooks == { "is_long", "check_prerequisites", "setup", "run",
           "get_result", "record", "cleanup" }

\* ------------------------------------------------------------ pure helpers
\* name[0:len(marker)] == marker
StartsWith(name, marker) ==
    /\ Len(marker) <= Len(name)
    /\ SubSeq(name, 1, Len(marker)) = marker

\* "{0}.{1}".format(test_tuple[0], test): the suite-qualified name
QualifiedName(t) == <<t.suite, t.name>>

\* Order of Python strings for the suite names that occur: the directory
\* names under suite/ and "main", the name given to the tests of ./t
SuiteRank(s) ==
    CASE s = "experimental" -> 1
      [] s = "main" -> 2
      [] s = "performance" -> 3
      [] OTHER -> 4

RECURSIVE SeqLess(_, _)
SeqLess(a, b) ==
    IF a = <<>> THEN b # <<>>
    ELSE IF b = <<>> THEN FALSE
    ELSE IF Head(a) # Head(b) THEN Head(a) < Head(b)
    ELSE SeqLess(Tail(a), Tail(b))

\* tuple comparison of (directory, root, fname); root is fixed by directory
TupleLess(t, u) ==
    \/ SuiteRank(t.suite) < SuiteRank(u.suite)
    \/ t.suite = u.suite /\ SeqLess(t.name, u.name)

\* test_files.sort(reverse=(opt.sort == 'desc')) of a duplicate-free list
IsSorted(s, desc) ==
    \A i, j \in 1..Len(s) :
        i < j => IF desc THEN TupleLess(s[j], s[i]) ELSE TupleLess(s[i], s[j])

SeqsUpTo(S, n) == UNION { [1..k -> S] : k \in 0..n }

Range(s) == { s[i] : i \in 1..Len(s) }


RECURSIVE CountMatches(_, _)
CountMatches(rows, x) ==
    IF rows = <<>> THEN 0
    ELSE (IF Head(rows) = x THEN 1 ELSE 0) + CountMatches(Tail(rows), x)

\* the worklist left in the order find_tests returned it
SortTests_AsFound(s, desc) == s

\* test_files.sort(reverse=...): the permutation of s that is in order
SortTests(s, desc) ==
    CHOOSE q \in [1..Len(s) -> Range(s)] : Range(q) = Range(s) /\ IsSorted(q, desc)

\* --------------------------------------------------------------- the state
VARIABLES
    pc,               \* position of the script
    opt,              \* the parsed options (opt.stop_test is reset at startup)
    test_files,       \* the worklist of (suite, name) references
    disable_list,     \* first fields of the rows of the disabled manifest
    args,             \* positional arguments; read last by find_tests, kept
                      \* until the worklist is sorted and empty from then on
    files,            \* files of the test directories in os.walk order; read
                      \* by find_tests only, kept and emptied like args
    start_sequence,   \* still looking for the --start-test test
    stop_testing,     \* the --stop-test test has been seen
    idx,              \* position of the for loop in test_files
    failed_tests,     \* names appended on FAIL
    skipped_tests,    \* names appended on SKIP
    num_tests_run,    \* tests counted as passed
    run_ok,           \* run_ok of the current iteration
    exit_status,      \* the value handed to sys.exit
    spawned,          \* servers registered as spawned in the pool
    next_id,          \* the pool's server id allocator
    shutdown_attempts,\* shutdown attempts each server has received
    files_removed,    \* calls of server_list.remove_files()
    printed,          \* tags, times and warnings written for the test of the
                      \* iteration under way (or of the last one)
    calls,            \* history: how each hook call of that test ended
    written,          \* history: FAIL, SKIP and RECORD tags written since
                      \* the start
    attempted,        \* history: positions that passed the start/stop markers
    finished,         \* history: positions whose iteration ran to its end
    raised,           \* history: the exception that left the try block
    trace_printed,    \* history: traceback.format_exc() was printed
    warnings,         \* the warnings of the marker validation, kept until
                      \* the loop takes its first step
    summary,          \* the lines of the postamble, None before
    start_test,       \* _print_elapsed_time: time.time() at the start of the
                      \* test, in milliseconds
    stop_test,        \* _print_elapsed_time: time.time() at the call
    display_time,     \* _print_elapsed_time: the value written, None before
    os_name,          \* os.name
    processes,        \* ids of the server processes get_local_servers found
    shutdown_log,     \* _shutdown_running_servers: what was done about each
                      \* process handled so far
    returned,         \* _shutdown_running_servers: the value returned, None
                      \* while the function is running or was not called
    test_class,       \* the module of the test case checked on its own
    test_case,        \* its fields res_fname (None or <<name>>), need_server
                      \* and server2
    fs,               \* names of the files present in the working directory
    case_pc,          \* the hook of the test case that is called next
    case_ended,       \* how each hook called so far ended, "" before
    run_pc,           \* failover_instances.run: the step of RunSteps that is
                      \* next, 0 when the test is not run
    consoles,         \* the console processes proc1..proc4: "none" before
                      \* start_process, then "running", "stopping" once
                      \* stop_process was called, "exited"
    elapsed,          \* _poll_console: elapsed
    done,             \* _poll_console: done
    run_ended,        \* how run ended, "" before
    seen_exited,      \* history: the consoles a poll has found exited
    log_reads,        \* history: the logs _check_result has read, with the
                      \* state of the console that writes the log
    master_up,        \* the master server has not been killed
    lock_pc,          \* copy_db_locks: the hook that is next, "done" when
                      \* the test is not run
    lock_results,     \* copy_db_locks: self.results
    dest_rows,        \* copy_db_locks: the rows SHOW DATABASES LIKE 'util_%'
                      \* gives on the destination server
    lock_ret,         \* copy_db_locks: what run or get_result gave last,
                      \* None before
    frm_pool,         \* frm_reader_base: the servers registered in the pool,
                      \* with their names
    frm_next_id,      \* frm_reader_base: the pool's id allocator
    frm_log           \* history: what each call of frm_reader_base.setup did

optvars == <<opt, test_files, disable_list, args, files>>
loopvars == <<start_sequence, stop_testing, idx, run_ok>>
reportvars == <<failed_tests, skipped_tests, num_tests_run, printed>>
poolvars == <<spawned, next_id, shutdown_attempts, files_removed>>
histvars == <<calls, written, attempted, finished, raised, trace_printed>>
outvars == <<warnings, summary>>
timevars == <<start_test, stop_test, display_time>>
\* the state of the functions and classes that are checked on their own
leftvars == <<os_name, processes, shutdown_log, returned>>
casevars == <<test_class, test_case, fs, case_pc, case_ended>>
failvars == <<run_pc, consoles, elapsed, done, run_ended, seen_exited,
              log_reads, master_up>>
lockvars == <<lock_pc, lock_results, dest_rows, lock_ret>>
frmvars == <<frm_pool, frm_next_id, frm_log>>
partvars == <<timevars, leftvars, casevars, failvars, lockvars, frmvars>>
vars == <<pc, exit_status, optvars, loopvars, reportvars, poolvars, histvars,
          outvars, partvars>>

debug_mode == opt.verbosity >= 2
verbose_mode == opt.verbosity >= 1

\* Values of --sort
Sorts == {"asc", "desc"}

\* The option records with the given verbosities, sort orders and markers,
\* and with the values F gives for the options find_tests reads.  An option
\* of action "append" is None or a non-empty list; None is <<>> here as well.
OptionsWith(V, S, M, F) ==
    [ force : BOOLEAN, record : BOOLEAN, verbosity : V,
      skip_long : BOOLEAN, skip_cleanup : BOOLEAN,
      start_test : M, stop_test : M, sort : S,
      suites : F.suites, skip_suites : F.skip_suites,
      wildcard : F.wildcard, like : F.like,
      skip_test : F.skip_test, skip_tests : F.skip_tests ]

\* --suite, --skip-suite, --do-tests, --run-tests-like, --skip-test and
\* --skip-tests all absent
NoFilters ==
    [ suites |-> {None}, skip_suites |-> {None}, wildcard |-> {None},
      like |-> {None}, skip_test |-> {None}, skip_tests |-> {None} ]

\* The option records with the given verbosities, sort orders and markers
OptionSpace(V, S, M) == OptionsWith(V, S, M, NoFilters)

\* The options of the runs explored
Options == OptionSpace(Verbosities, Sorts, Markers)

\* Worklists find_tests can return: no reference twice, any walk order.
Worklists ==
    { s \in SeqsUpTo(TestUniverse, MaxTests) :
        \A i, j \in 1..Len(s) : i # j => s[i] # s[j] }

\* Rows the manifest can hold (the same name may be listed more than once).
DisabledUniverse == { QualifiedName([suite |-> "main", name |-> <<1, 1>>]) }

\* --record is accepted with exactly one positional argument only
\* (parser.error otherwise), and find_tests then keeps the tests whose name,
\* bare or suite-qualified, is that argument.
RecordSelectionOK(o, s) ==
    o.record => \A i, j \in 1..Len(s) : s[i].name = s[j].name

NoRaise == <<>>

\* The functions and classes checked on their own are not under way
TimeIdle ==
    /\ start_test = 0
    /\ stop_test = 0
    /\ display_time = None

LeftIdle ==
    /\ os_name = "posix"
    /\ processes = <<>>
    /\ shutdown_log = <<>>
    /\ returned = None

\* a test case as its constructor leaves it
NewCase == [ res_fname |-> None, need_server |-> FALSE, server2 |-> None ]

NoCalls == [ h \in {"check_prerequisites", "setup", "cleanup"} |-> "" ]

CaseIdle ==
    /\ test_class = "none"
    /\ test_case = NewCase
    /\ fs = {}
    /\ case_pc = "done"
    /\ case_ended = NoCalls

NumConsoles == 4

\* the locals of _poll_console at its call (lines 76-78)
PollReset ==
    /\ elapsed = 0
    /\ done = FALSE

FailStart ==
    /\ consoles = [p \in 1..NumConsoles |-> "none"]
    /\ PollReset
    /\ run_ended = ""
    /\ seen_exited = {}
    /\ log_reads = <<>>
    /\ master_up = TRUE

FailIdle == run_pc = 0 /\ FailStart

LockIdle ==
    /\ lock_pc = "done"
    /\ lock_results = <<>>
    /\ dest_rows = <<>>
    /\ lock_ret = None

\* the pool with the server the script was started with
FrmIdle ==
    /\ frm_pool = <<[name |-> "server0", id |-> 0, spawned |-> FALSE]>>
    /\ frm_next_id = 1
    /\ frm_log = <<>>

PartsIdle ==
    TimeIdle /\ LeftIdle /\ CaseIdle /\ FailIdle /\ LockIdle /\ FrmIdle

\* The script's own state before the worklist is sorted (line 609), for
\* option records O, worklists W and manifests D.
MainAt(O, W, D) ==
    /\ pc = "startup"
    /\ opt \in O
    /\ test_files \in W
    /\ RecordSelectionOK(opt, test_files)
    /\ disable_list \in D
    /\ args = <<>>
    /\ files = <<>>
    /\ start_sequence = (opt.start_test # None)
    /\ stop_testing = FALSE
    /\ idx = 1
    /\ failed_tests = <<>>
    /\ skipped_tests = <<>>
    /\ num_tests_run = 0
    /\ run_ok = TRUE
    /\ exit_status = 0
    /\ spawned = {}
    /\ next_id = 1
    /\ shutdown_attempts = [s \in 1..MaxServers |-> 0]
    /\ files_removed = 0
    /\ calls = [h \in Hooks |-> <<>>]
    /\ printed = <<>>
    /\ written = [t \in {"FAIL", "SKIP", "RECORD"} |-> 0]
    /\ attempted = <<>>
    /\ finished = {}
    /\ raised = NoRaise
    /\ trace_printed = FALSE
    /\ warnings = <<>>
    /\ summary = None

\* The state before the worklist is sorted (line 609)
InitFrom(O, W, D) == MainAt(O, W, D) /\ PartsIdle

Init == InitFrom(Options, Worklists, SeqsUpTo(DisabledUniverse, MaxDisabled))

\* ------------------------------------------------- the reporting helpers
\* The part of the state the helpers below read and write, as one record.
Rep ==
    [ failed |-> failed_tests, skipped |-> skipped_tests,
      printed |-> printed, calls |-> calls, written |-> written,
      ret |-> "true" ]

\* the same at the head of an iteration: nothing called or written yet for
\* the test at hand
Fresh == [Rep EXCEPT !.printed = <<>>, !.calls = [h \in Hooks |-> <<>>]]

\* the hook h of the test at hand is called and ends as r
Called(st, h, r) == [st EXCEPT !.calls[h] = Append(@, r)]

\* sys.stdout.write / print of a status tag, the elapsed time or a warning
Wrote(st, what) ==
    [st EXCEPT !.printed = Append(@, what),
               !.written = [t \in DOMAIN st.written |->
                               st.written[t] + (IF t = what THEN 1 ELSE 0)]]

\* _report_error: the tag, the time and the message are written, and the
\* test's name goes to failed_tests when the mode is FAIL and to
\* skipped_tests otherwise.
_report_error(st, message, mode) ==
    LET w == Wrote(Wrote(Wrote(st, mode), "time"), message)
        test == test_files[idx].name
    IN  IF mode = "FAIL"
        THEN [w EXCEPT !.failed = Append(@, test)]
        ELSE [w EXCEPT !.skipped = Append(@, test)]

\* the loop over disable_list without its report
report_disabled_Silent(st, n) == st

\* the loop over disable_list, one _report_error per matching row
RECURSIVE report_disabled(_, _)
report_disabled(st, n) ==
    IF n = 0 THEN st
    ELSE report_disabled(_report_error(st, "Test marked as disabled.", "SKIP"),
                         n - 1)

\* _exec_and_report with the exit strategy called whether or not one was given
_exec_and_report_AlwaysExit(st, r, message, action, has_exit, c) ==
    IF r = "true" THEN [st EXCEPT !.ret = "true"]
    ELSE IF r = "Exception" THEN [st EXCEPT !.ret = "Exception"]
    ELSE [Called(_report_error(st, message, action), "cleanup", c) EXCEPT
             !.ret = IF c \in {"true", "false"} THEN "false" ELSE c]

\* _exec_and_report returning True whatever the procedure returned
_exec_and_report_Lenient(st, r, message, action, has_exit, c) ==
    IF r = "Exception" THEN [st EXCEPT !.ret = "Exception"]
    ELSE [st EXCEPT !.ret = "true"]

\* _exec_and_report with the exit strategy never called
_exec_and_report_NoExit(st, r, message, action, has_exit, c) ==
    IF r = "true" THEN [st EXCEPT !.ret = "true"]
    ELSE IF r = "Exception" THEN [st EXCEPT !.ret = "Exception"]
    ELSE [_report_error(st, message, action) EXCEPT !.ret = "false"]

\* _exec_and_report: r is how procedure() ended; has_exit says whether an
\* exception_procedure was given (it is test_case.cleanup) and c is how that
\* call ended.  ret is "true"/"false" for the value returned, and the kind of
\* the exception when one leaves the helper.
_exec_and_report(st, r, message, action, has_exit, c) ==
    IF r = "true" THEN [st EXCEPT !.ret = "true"]
    ELSE IF r = "Exception" THEN [st EXCEPT !.ret = "Exception"]
    ELSE LET rep == _report_error(st, message, action)
         IN  IF ~has_exit THEN [rep EXCEPT !.ret = "false"]
             ELSE [Called(rep, "cleanup", c) EXCEPT
                      !.ret = IF c \in {"true", "false"} THEN "false" ELSE c]

\* the report variables and the call history take the values of st
SetReport(st) ==
    /\ failed_tests' = st.failed
    /\ skipped_tests' = st.skipped
    /\ printed' = st.printed
    /\ calls' = st.calls
    /\ written' = st.written

\* `continue` before the test is looked at: the loop moves on
Continue ==
    /\ idx' = idx + 1
    /\ pc' = "loop"

\* `continue` or the end of the loop body for an attempted test
EndIteration ==
    /\ Continue
    /\ finished' = finished \cup {idx}
    /\ UNCHANGED raised

\* `break`
Break ==
    /\ pc' = "summary"
    /\ finished' = finished \cup {idx}
    /\ UNCHANGED <<idx, raised>>

\* the next hook of the same test
Goto(label) ==
    /\ pc' = label
    /\ UNCHANGED <<idx, finished, raised>>

\* an exception of the given kind, raised by the given call, leaves the try
\* block
Raise(what, kind) ==
    /\ pc' = "except"
    /\ raised' = <<what, kind>>
    /\ UNCHANGED <<idx, finished>>

\* ---------------------------------------------- command line and discovery
\* File names are sequences of letters like test names; 8, 9 spell the
\* suffix "_template", 3 is "mutlib" and 4 is "__init__".
Template == <<8, 9>>
Mutlib == <<3>>
DunderInit == <<4>>

\* str.endswith
EndsWith(name, suffix) ==
    /\ Len(suffix) <= Len(name)
    /\ SubSeq(name, Len(name) - Len(suffix) + 1, Len(name)) = suffix

\* Files the walked directories can hold: the three tests, a template test,
\* the two library files and a compiled test (fname, ext as os.path.splitext
\* gives them).
FileUniverse ==
    { [suite |-> t.suite, name |-> t.name, ext |-> ".py"] : t \in TestUniverse }
    \cup { [suite |-> "main", name |-> <<2>> \o Template, ext |-> ".py"],
           [suite |-> "main", name |-> Mutlib, ext |-> ".py"],
           [suite |-> "main", name |-> DunderInit, ext |-> ".py"],
           [suite |-> "main", name |-> <<1, 1>>, ext |-> ".pyc"] }


\* A positional argument is a bare test name or a suite-qualified one.
BareName(n) == <<"", n>>

ArgUniverse ==
    { BareName(<<1, 1>>), BareName(<<2>>),
      QualifiedName([suite |-> "replication", name |-> <<1, 1>>]) }

\* `like in fname`: like is a substring of fname
Contains(name, sub) ==
    \E i \in 1..(Len(name) + 1) :
        /\ i + Len(sub) - 1 <= Len(name)
        /\ SubSeq(name, i, i + Len(sub) - 1) = sub

\* the suite performance treated like any other suite
PerformanceExcluded_Never(directory, suites) == FALSE

\* Lines 295-298: tests of the suite performance are passed over unless
\* --suite names that suite
PerformanceExcluded(directory, suites) ==
    \/ suites # None /\ "performance" \notin Range(suites)
           /\ directory = "performance"
    \/ directory = "performance" /\ suites = None

\* Lines 311-315: the loop over opt.skip_tests appends the reference and
\* breaks at the first prefix the name does not begin with
PassesSkipTests(fname, skips) ==
    \E i \in 1..Len(skips) : ~StartsWith(fname, skips[i])

\* Lines 301-318: the name filters, --do-tests before --run-tests-like
\* before --skip-tests
NameSelected(fname, o) ==
    IF o.wildcard # None
    THEN \E i \in 1..Len(o.wildcard) : StartsWith(fname, o.wildcard[i])
    ELSE IF o.like # None
    THEN \E i \in 1..Len(o.like) : Contains(fname, o.like[i])
    ELSE IF o.skip_tests # None
    THEN PassesSkipTests(fname, o.skip_tests)
    ELSE TRUE

\* find_tests without the test for template files
IsTest_TemplatesToo(f, a, o) ==
    /\ o.suites # None => f.suite \in Range(o.suites)
    /\ a # <<>> => (BareName(f.name) \in Range(a) \/ QualifiedName(f) \in Range(a))
    /\ o.skip_test # None =>
           ~(BareName(f.name) \in Range(o.skip_test)
               \/ QualifiedName(f) \in Range(o.skip_test))
    /\ o.skip_suites # None => f.suite \notin Range(o.skip_suites)
    /\ f.ext = ".py" /\ f.name # DunderInit /\ f.name # Mutlib
    /\ ~PerformanceExcluded(f.suite, o.suites)
    /\ NameSelected(f.name, o)

\* Lines 244-318, the body of the loop over the files: is a reference to
\* the file f appended to the list?  f.suite is the directory derived from
\* the root (245-259), a the positional arguments, o the options.
IsTest(f, a, o) ==
    /\ o.suites # None => f.suite \in Range(o.suites)
    /\ ~EndsWith(f.name, Template)
    /\ a # <<>> => (BareName(f.name) \in Range(a) \/ QualifiedName(f) \in Range(a))
    /\ o.skip_test # None =>
           ~(BareName(f.name) \in Range(o.skip_test)
               \/ QualifiedName(f) \in Range(o.skip_test))
    /\ o.skip_suites # None => f.suite \notin Range(o.skip_suites)
    /\ f.ext = ".py" /\ f.name # DunderInit /\ f.name # Mutlib
    /\ ~PerformanceExcluded(f.suite, o.suites)
    /\ NameSelected(f.name, o)

\* find_tests leaving out the references the global worklist already holds
RECURSIVE find_tests_OnlyNew(_, _, _)
find_tests_OnlyNew(walk, a, o) ==
    IF walk = <<>> THEN <<>>
    ELSE LET f == Head(walk)
             rest == find_tests_OnlyNew(Tail(walk), a, o)
         IN  IF IsTest(f, a, o)
                  /\ [suite |-> f.suite, name |-> f.name] \notin Range(test_files)
             THEN <<[suite |-> f.suite, name |-> f.name]>> \o rest
             ELSE rest

\* find_tests(path) over the files of one path, in walk order: the list is
\* local to the call and built from the walk, args and opt only
RECURSIVE find_tests(_, _, _)
find_tests(walk, a, o) ==
    IF walk = <<>> THEN <<>>
    ELSE LET f == Head(walk)
             rest == find_tests(Tail(walk), a, o)
         IN  IF IsTest(f, a, o)
             THEN <<[suite |-> f.suite, name |-> f.name]>> \o rest
             ELSE rest

\* the options at their defaults
Defaults == CHOOSE o \in OptionSpace({0}, {"asc"}, {None}) : TRUE

\* Directory listings: no file twice, at most MaxTests tests among the files
Listings ==
    { s \in SeqsUpTo(FileUniverse, MaxFiles) :
        /\ \A i, j \in 1..Len(s) : i # j => s[i] # s[j]
        /\ Len(find_tests(s, <<>>, Defaults)) <= MaxTests }

\* the files os.walk finds under SUITE_PATH (the suites) or under TEST_PATH
\* (the directory of the main tests)
RECURSIVE Walk(_, _)
Walk(listing, suites) ==
    IF listing = <<>> THEN <<>>
    ELSE IF (Head(listing).suite # "main") = suites
    THEN <<Head(listing)>> \o Walk(Tail(listing), suites)
    ELSE Walk(Tail(listing), suites)

\* --debug accepted with any list of tests
RejectDebug_Never(v, n) == FALSE

\* Lines 440-442: --debug cannot be mixed with a list of tests
RejectDebug(v, n) == v >= 2 /\ n > 1

\* Lines 444-446: --record needs exactly one positional argument
RejectRecord(rec, n) == rec /\ n # 1

\* Lines 436-438: --do-tests cannot be mixed with a list of tests
RejectWildcard(wildcard, n) == wildcard # None /\ n > 0

\* Lines 430-446: the checks of the parsed command line; parser.error exits
\* with status 2 before anything else is done.
ParseArgs ==
    /\ pc = "parse"
    /\ IF \/ RejectWildcard(opt.wildcard, Len(args))
          \/ RejectDebug(opt.verbosity, Len(args))
          \/ RejectRecord(opt.record, Len(args))
       THEN pc' = "rejected" /\ exit_status' = 2
       ELSE pc' = "find" /\ UNCHANGED exit_status
    /\ UNCHANGED <<partvars, outvars, optvars, loopvars, reportvars, poolvars, histvars>>

\* Lines 597-602: the worklist is what find_tests returns for SUITE_PATH
\* followed by what it returns for TEST_PATH.
FindTests ==
    /\ pc = "find"
    /\ test_files' = find_tests(Walk(files, TRUE), args, opt)
                         \o find_tests(Walk(files, FALSE), args, opt)
    /\ pc' = "startup"
    /\ UNCHANGED <<partvars, outvars, exit_status, opt, disable_list, args, files, loopvars,
                   reportvars, poolvars, histvars>>

\* --------------------------------------------------------------- startup
\* Lines 597-651: the worklist is sorted and the two markers are validated.
\* every marker taken as found
MarkerFound_Always(tests, marker) == TRUE

MarkerFound(tests, marker) ==
    \E i \in 1..Len(tests) : StartsWith(tests[i].name, marker)

\* "WARNING: --start-test=..%% was not found. Running full suite(s)"
NotFoundWarning(option, marker) == [option |-> option, marker |-> marker]

Startup ==
    /\ pc = "startup"
    /\ LET sorted == SortTests(test_files, opt.sort = "desc")
           start_lost == start_sequence /\ ~MarkerFound(sorted, opt.start_test)
           stop_lost == opt.stop_test # None /\ ~MarkerFound(sorted, opt.stop_test)
       IN  /\ test_files' = sorted
           /\ start_sequence' = (start_sequence /\ ~start_lost)
           /\ opt' = IF stop_lost
                     THEN [opt EXCEPT !.stop_test = None]
                     ELSE opt
           /\ warnings' =
                 (IF start_lost
                  THEN <<NotFoundWarning("--start-test", opt.start_test)>>
                  ELSE <<>>)
                 \o (IF stop_lost
                     THEN <<NotFoundWarning("--stop-test", opt.stop_test)>>
                     ELSE <<>>)
    /\ args' = <<>>
    /\ files' = <<>>
    /\ pc' = "loop"
    /\ UNCHANGED <<partvars, summary, exit_status, disable_list, stop_testing, idx, run_ok,
                   reportvars, poolvars, histvars>>

\* ---------------------------------------------------------- the test loop
\* What test hooks do to the pool: setup and run may spawn a server and
\* register it as spawned (spawn_new_server + add_new_server(.., True));
\* run and cleanup may kill and deregister servers (kill_server_list,
\* remove_server).
PoolAfterHook(canSpawn, canKill) ==
    \E sp \in BOOLEAN :
        /\ sp => canSpawn /\ next_id <= MaxServers
        /\ next_id' = IF sp THEN next_id + 1 ELSE next_id
        /\ LET s1 == IF sp THEN spawned \cup {next_id} ELSE spawned
           IN  \E K \in SUBSET s1 :
                 /\ K # {} => canKill
                 /\ spawned' = s1 \ K

\* the start marker ignored
Bypassed_Never(seeking, name, marker) == FALSE

\* Lines 659-663: while the start sequence is on, a test whose name does not
\* begin with the start marker is passed over
Bypassed(seeking, name, marker) == seeking /\ ~StartsWith(name, marker)

\* is_long() called whether or not long tests are suppressed
AsksIsLong_Always(o) == TRUE

\* Line 709, `opt.skip_long and test_case.is_long()`: is_long() is called
\* only when long tests are suppressed
AsksIsLong(o) == o.skip_long

\* Lines 656-712: the head of an iteration, up to the first lifecycle hook.
\* made: the import and the constructor succeeded; long: how is_long() ended.
LoopHead ==
    /\ pc = "loop"
    /\ IF idx > Len(test_files)
       THEN /\ pc' = "summary"
            /\ UNCHANGED <<loopvars, reportvars, histvars>>
       ELSE LET t == test_files[idx]
                bypass == Bypassed(start_sequence, t.name, opt.start_test)
                stop == IF opt.stop_test # None /\ ~stop_testing
                        THEN StartsWith(t.name, opt.stop_test)
                        ELSE stop_testing
                n == CountMatches(disable_list, QualifiedName(t))
            IN  IF bypass
                THEN /\ Continue
                     /\ UNCHANGED <<start_sequence, stop_testing, run_ok,
                                    reportvars, histvars>>
                ELSE
                /\ start_sequence' = FALSE
                /\ stop_testing' = stop
                /\ UNCHANGED <<run_ok, num_tests_run, trace_printed>>
                /\ IF stop
                   THEN /\ Continue
                        /\ UNCHANGED <<failed_tests, skipped_tests, printed,
                                       calls, written, attempted, finished,
                                       raised>>
                   ELSE
                   /\ attempted' = Append(attempted, idx)
                   /\ \E made \in BOOLEAN, long \in HookResults :
                        IF ~made
                        THEN /\ long = "true"
                             /\ Raise("import", "Exception")
                             /\ SetReport(Fresh)
                        ELSE IF n > 0
                        THEN /\ long = "true"
                             /\ SetReport(report_disabled(Fresh, n))
                             /\ EndIteration
                        ELSE IF ~AsksIsLong(opt)
                        THEN /\ long = "true"
                             /\ Goto("check_prerequisites")
                             /\ SetReport(Fresh)
                        ELSE LET st == Called(Fresh, "is_long", long)
                             IN  CASE long = "true" ->
                                        /\ SetReport(_report_error(st,
                                               "Test marked as long running test.",
                                               "SKIP"))
                                        /\ EndIteration
                                   [] long = "false" ->
                                        /\ SetReport(st)
                                        /\ Goto("check_prerequisites")
                                   [] OTHER ->
                                        /\ SetReport(st)
                                        /\ Raise("is_long", long)
    /\ warnings' = <<>>
    /\ UNCHANGED <<partvars, summary, exit_status, optvars, poolvars>>

\* Lines 714-720: check_prerequisites through _exec_and_report, no exit
\* strategy.
CheckPrerequisites ==
    /\ pc = "check_prerequisites"
    /\ \E r \in HookResults :
         LET st == _exec_and_report(Called(Rep, "check_prerequisites", r),
                                    r, "Cannot establish resources needed to run test.",
                                    "SKIP", FALSE, "true")
         IN  /\ SetReport(st)
             /\ CASE st.ret = "true" -> Goto("setup")
                  [] st.ret = "false" -> EndIteration
                  [] OTHER -> Raise("check_prerequisites", st.ret)
    /\ UNCHANGED <<partvars, outvars, exit_status, optvars, start_sequence, stop_testing, run_ok,
                   num_tests_run, poolvars, attempted, trace_printed>>

\* Lines 722-727: setup through _exec_and_report, test_case.cleanup as the
\* exit strategy.
Setup ==
    /\ pc = "setup"
    /\ \E r \in HookResults, c \in HookResults :
         LET failedSetup == r \in {"false", "MUTLibError"}
             st == _exec_and_report(Called(Rep, "setup", r),
                                    r, "Cannot establish setup conditions to run test.",
                                    "SKIP", TRUE, c)
             cleaned == Len(st.calls["cleanup"]) > Len(calls["cleanup"])
         IN  /\ failedSetup \/ c = "true"
             /\ SetReport(st)
             /\ PoolAfterHook(TRUE, cleaned)
             /\ CASE st.ret = "true" -> Goto("run")
                  [] st.ret = "false" -> EndIteration
                  [] OTHER -> Raise(IF cleaned THEN "cleanup" ELSE "setup", st.ret)
    /\ UNCHANGED <<partvars, outvars, exit_status, optvars, start_sequence, stop_testing, run_ok,
                   num_tests_run, shutdown_attempts, files_removed,
                   attempted, trace_printed>>

\* run_ok when the MUTLibError of run() is dropped at every verbosity
RunOk_ErrorDropped(r) == r \in {"true", "MUTLibError"}

\* Lines 729-755: run_ok after run() ended as r
RunOk(r) ==
    CASE r = "true" -> TRUE
      [] r = "false" -> FALSE
      [] r = "MUTLibError" -> debug_mode   \* run_ok keeps its initial True
      [] OTHER -> FALSE

\* Lines 729-757 and 797-801: run() and the decision on run_ok; a failed run
\* is reported at once, a good one goes on to the result phase.
Run ==
    /\ pc = "run"
    /\ \E r \in HookResults :
         LET st == Called(Rep, "run", r)
         IN  /\ PoolAfterHook(TRUE, TRUE)
             /\ IF r = "Exception"
                THEN /\ SetReport(st)
                     /\ Raise("run", r)
                     /\ UNCHANGED run_ok
                ELSE /\ run_ok' = RunOk(r)
                     /\ IF RunOk(r)
                        THEN SetReport(st) /\ Goto("result")
                        ELSE /\ SetReport(_report_error(
                                            st, "Test execution failed.", "FAIL"))
                             /\ Goto("cleanup")
    /\ UNCHANGED <<partvars, outvars, exit_status, optvars, start_sequence, stop_testing,
                   num_tests_run, shutdown_attempts, files_removed,
                   attempted, trace_printed>>

\* the result phase with the debug test ahead of the record test
ResultPhase_DebugFirst(o) ==
    IF o.verbosity >= 2 THEN "none"
    ELSE IF o.record THEN "record"
    ELSE "get_result"

\* Lines 763-777: what follows a good run: record() with --record, nothing at
\* debug verbosity, get_result() otherwise.
ResultPhase(o) ==
    IF o.record THEN "record"
    ELSE IF o.verbosity >= 2 THEN "none"
    ELSE "get_result"

\* Lines 757-795: the result phase.
Result ==
    /\ pc = "result"
    /\ CASE ResultPhase(opt) = "record" ->
              /\ \E r \in HookResults :
                   LET st == Called(Wrote(Rep, "RECORD"), "record", r)
                   IN  CASE r = "true" ->
                              /\ SetReport(Wrote(st, "time"))
                              /\ Goto("cleanup")
                         [] r = "false" ->
                              /\ SetReport(Wrote(Wrote(st, "time"), "WARNING"))
                              /\ Goto("cleanup")
                         [] OTHER ->
                              /\ SetReport(st)
                              /\ Raise("record", r)
              /\ UNCHANGED <<run_ok, num_tests_run>>
         [] ResultPhase(opt) = "none" ->
              /\ Goto("cleanup")
              /\ UNCHANGED <<run_ok, reportvars, calls, written>>
         [] OTHER ->
              \E r \in HookResults :
                LET st == Called(Rep, "get_result", r)
                IN  CASE r = "true" ->
                           /\ SetReport(Wrote(st, "pass"))
                           /\ num_tests_run' = num_tests_run + 1
                           /\ run_ok' = TRUE
                           /\ Goto("cleanup")
                      [] r \in {"false", "MUTLibError"} ->
                           /\ SetReport([Wrote(st, "FAIL") EXCEPT
                                            !.failed = Append(@, test_files[idx].name)])
                           /\ run_ok' = FALSE
                           /\ Goto("cleanup")
                           /\ UNCHANGED num_tests_run
                      [] OTHER ->
                           /\ SetReport(st)
                           /\ Raise("get_result", r)
                           /\ UNCHANGED <<run_ok, num_tests_run>>
    /\ UNCHANGED <<partvars, outvars, exit_status, optvars, start_sequence, stop_testing,
                   poolvars, attempted, trace_printed>>

\* Lines 804-811: test_cleanup_ok after cleanup() ended as c
test_cleanup_ok(c) == c = "true"

\* the force check without its break
StopRun_Never(ok, force) == FALSE

\* the force check with --force ignored
StopRun_Always(ok, force) == ~ok

\* Lines 833-835: the loop is left after a failure unless --force is given
StopRun(ok, force) == ~ok /\ ~force

\* a failed cleanup counted as a failed test
RunOkAfterCleanup_Strict(ok, c) == ok /\ c = "true"

\* Lines 803-832: no statement between the run and the force check assigns
\* run_ok; the way cleanup() ended only decides on the warning.
RunOkAfterCleanup(ok, c) == ok

\* the error lines left out
ResultsError_Silent(st) == st

\* Lines 784-787 and 824-828: results[1] is written after "ERROR:" when
\* get_result() was called and gave strings: those of the test for a failed
\* comparison, "Test results cannot be established." and the message of the
\* error when it raised MUTLibError.
ResultsError(st) ==
    IF st.calls["get_result"] = <<"MUTLibError">>
    THEN Wrote(Wrote(Wrote(st, "ERROR:"),
                     "Test results cannot be established."), "e.errmsg")
    ELSE IF st.calls["get_result"] = <<"false">>
    THEN Wrote(Wrote(st, "ERROR:"), "results[1]")
    ELSE st

\* Lines 803-835: cleanup(), the time of a passed test, the cleanup warning,
\* the error lines of get_result(), the force check.
Cleanup ==
    /\ pc = "cleanup"
    /\ \E c \in HookResults :
         LET st == Called(Rep, "cleanup", c)
             timed == IF ~opt.record /\ run_ok /\ ~debug_mode
                      THEN Wrote(st, "time") ELSE st
         IN  /\ PoolAfterHook(FALSE, TRUE)
             /\ IF c = "Exception"
                THEN SetReport(st) /\ Raise("cleanup", c) /\ UNCHANGED run_ok
                ELSE /\ SetReport(ResultsError(IF test_cleanup_ok(c) THEN timed
                                               ELSE Wrote(timed, "WARNING")))
                     /\ run_ok' = RunOkAfterCleanup(run_ok, c)
                     /\ IF StopRun(run_ok', opt.force)
                        THEN Break
                        ELSE EndIteration
    /\ UNCHANGED <<partvars, outvars, exit_status, optvars, start_sequence, stop_testing,
                   num_tests_run, shutdown_attempts, files_removed,
                   attempted, trace_printed>>

\* the postamble turning failed tests into a failure status
\* a line of the postamble: its text, the numbers and the names it gives
Line(text, count, of, names) ==
    [text |-> text, count |-> count, of |-> of, names |-> names]

\* Lines 843-848: the first line of the summary
Headline(num_fail, num_skip, num_tests) ==
    IF num_fail = 0 /\ num_skip = 0
    THEN IF num_tests > 0
         THEN <<Line("All tests passed.", num_tests, num_tests, <<>>)>>
         ELSE <<>>
    ELSE <<Line("tests completed.", num_tests_run, num_tests, <<>>)>>

\* Lines 840-857: the lines written after the loop
Postamble(num_fail, num_skip, num_tests) ==
    Headline(num_fail, num_skip, num_tests)
    \o (IF num_skip # 0
        THEN <<Line("The following tests were skipped:", num_skip, num_tests,
                    skipped_tests)>>
        ELSE <<>>)
    \o (IF num_fail # 0
        THEN <<Line("The following tests failed:", num_fail, num_tests,
                    failed_tests)>>
        ELSE <<>>)

Summary_FailStatus ==
    /\ pc = "summary"
    /\ pc' = "finally"
    /\ exit_status' = IF failed_tests # <<>> THEN 1 ELSE exit_status
    /\ summary' = <<Postamble(Len(failed_tests), Len(skipped_tests),
                              Len(test_files))>>
    /\ UNCHANGED <<partvars, warnings, optvars, loopvars, reportvars, poolvars,
                   histvars>>

\* Lines 837-857: the postamble; nothing but printing.
Summary ==
    /\ pc = "summary"
    /\ pc' = "finally"
    /\ summary' = <<Postamble(Len(failed_tests), Len(skipped_tests),
                              Len(test_files))>>
    /\ UNCHANGED <<partvars, warnings, exit_status, optvars, loopvars, reportvars,
                   poolvars, histvars>>

\* the except clause without exit_status = 1
Except_KeepsStatus ==
    /\ pc = "except"
    /\ trace_printed' = TRUE
    /\ pc' = "finally"
    /\ UNCHANGED <<partvars, outvars, exit_status, optvars, loopvars, reportvars, poolvars, calls,
                   written, attempted, finished, raised>>

\* Lines 859-861: the bare except clause.
Except ==
    /\ pc = "except"
    /\ trace_printed' = TRUE
    /\ exit_status' = 1
    /\ pc' = "finally"
    /\ UNCHANGED <<partvars, outvars, optvars, loopvars, reportvars, poolvars, calls, written,
                   attempted, finished, raised>>

\* ServerList.shutdown_spawned_servers: one shutdown attempt for every
\* server registered as spawned, a failed attempt being only a warning.
shutdown_spawned_servers(att, servers) ==
    [s \in DOMAIN att |-> IF s \in servers THEN att[s] + 1 ELSE att[s]]

\* Line 871, `server_list.cleanup_list > 0`: cleanup_list is the pool's list
\* of files pending deletion, and a list compares greater than any number.
CleanupListPositive == TRUE

\* the teardown as an else clause of the try instead of a finally clause
TeardownWanted_OnlyOnSuccess(o) == ~o.skip_cleanup /\ exit_status = 0

\* Line 866: the pool is torn down unless --skip-cleanup is given
TeardownWanted(o) == ~o.skip_cleanup

\* Lines 864-886: the finally clause, ending in sys.exit(exit_status).
Finally ==
    /\ pc = "finally"
    /\ IF TeardownWanted(opt)
       THEN /\ shutdown_attempts' =
                 IF spawned # {}
                 THEN shutdown_spawned_servers(shutdown_attempts, spawned)
                 ELSE shutdown_attempts
            /\ files_removed' = IF CleanupListPositive
                                THEN files_removed + 1 ELSE files_removed
       ELSE UNCHANGED <<shutdown_attempts, files_removed>>
    /\ pc' = "exited"
    /\ UNCHANGED <<partvars, outvars, exit_status, optvars, loopvars, reportvars, spawned, next_id,
                   histvars>>

Next ==
    \/ Startup
    \/ LoopHead
    \/ CheckPrerequisites
    \/ Setup
    \/ Run
    \/ Result
    \/ Cleanup
    \/ Summary
    \/ Except
    \/ Finally

Spec == Init /\ [][Next]_vars

\* The runs from the command line on: the options that the startup checks
\* read (--record, the verbosity) with the others at fixed values, every
\* list of positional arguments and every listing of the directories.
StartOptions ==
    { o \in OptionSpace(Verbosities, {"asc"}, {None}) :
        o.force /\ ~o.skip_long /\ ~o.skip_cleanup }

\* The state at parser.parse_args() (line 430), for option records O, lists
\* of positional arguments A and directory listings L.
InitCommandLine(O, A, L) ==
    /\ PartsIdle
    /\ pc = "parse"
    /\ opt \in O
    /\ args \in A
    /\ files \in L
    /\ test_files = <<>>
    /\ disable_list = <<>>
    /\ start_sequence = (opt.start_test # None)
    /\ stop_testing = FALSE
    /\ idx = 1
    /\ failed_tests = <<>>
    /\ skipped_tests = <<>>
    /\ num_tests_run = 0
    /\ run_ok = TRUE
    /\ exit_status = 0
    /\ spawned = {}
    /\ next_id = 1
    /\ shutdown_attempts = [s \in 1..MaxServers |-> 0]
    /\ files_removed = 0
    /\ calls = [h \in Hooks |-> <<>>]
    /\ printed = <<>>
    /\ written = [t \in {"FAIL", "SKIP", "RECORD"} |-> 0]
    /\ attempted = <<>>
    /\ finished = {}
    /\ raised = NoRaise
    /\ trace_printed = FALSE
    /\ warnings = <<>>
    /\ summary = None

InitStart == InitCommandLine(StartOptions, SeqsUpTo(ArgUniverse, MaxArgs), Listings)

NextStart ==
    \/ ParseArgs
    \/ FindTests
    \/ Next

SpecStart == InitStart /\ [][NextStart]_vars

\* Discovery on its own: the command line checks, find_tests over the two
\* paths and the sort, for the options find_tests reads.  The directories
\* hold the three tests and one test in each of the suites performance and
\* experimental (performance.ba, experimental.b).
SuiteFileUniverse ==
    { [suite |-> t.suite, name |-> t.name, ext |-> ".py"] : t \in TestUniverse }
    \cup { [suite |-> "performance", name |-> <<2, 1>>, ext |-> ".py"],
           [suite |-> "experimental", name |-> <<2>>, ext |-> ".py"] }

SuiteListings ==
    { s \in SeqsUpTo(SuiteFileUniverse, MaxFiles) :
        \A i, j \in 1..Len(s) : i # j => s[i] # s[j] }

\* Values of the options find_tests reads: None or a list, the prefixes a
\* and b for --skip-tests in lists of one and two
FindFilters ==
    [ suites |-> { None, <<"performance">>, <<"main">> },
      skip_suites |-> { None, <<"replication">> },
      wildcard |-> { None, << <<1>> >> },
      like |-> { None, << <<1>> >> },
      skip_test |-> { None, << BareName(<<2>>) >> },
      skip_tests |-> { None, << <<1>> >>, << <<2>> >>,
                       << <<1>>, <<2>> >>, << <<1>>, <<1>> >> } ]

FindOptions ==
    { o \in OptionsWith({0}, Sorts, {None}, FindFilters) :
        o.force /\ ~o.record /\ ~o.skip_long /\ ~o.skip_cleanup }

InitFind ==
    InitCommandLine(FindOptions,
                    SeqsUpTo({BareName(<<1, 1>>), BareName(<<2, 1>>)}, 1),
                    SuiteListings)

NextFind ==
    \/ ParseArgs
    \/ FindTests
    \/ Startup

SpecFind == InitFind /\ [][NextFind]_vars

\* The runs of worklists that hold tests of four suites, in both sort
\* orders, with and without --force, the other options at their defaults
\* and an empty manifest.
SortUniverse ==
    TestUniverse \cup { [suite |-> "performance", name |-> <<2, 1>>],
                        [suite |-> "experimental", name |-> <<2>>] }

SortWorklists ==
    { s \in SeqsUpTo(SortUniverse, MaxTests) :
        \A i, j \in 1..Len(s) : i # j => s[i] # s[j] }

SortOptions ==
    { o \in OptionSpace({0}, Sorts, {None}) :
        ~o.record /\ ~o.skip_long /\ ~o.skip_cleanup }

InitSort == InitFrom(SortOptions, SortWorklists, {<<>>})

SpecSort == InitSort /\ [][Next]_vars

\* ------------------------------------------------- _print_elapsed_time
MaxTicks == 25      \* latest clock reading, in milliseconds

\* int(x) for the quotient x = num / den, den > 0: truncation towards zero
Truncate(num, den) ==
    IF num >= 0 THEN num \div den ELSE -((-num) \div den)

\* display_time without the replacement of 0 by 1
DisplayTime_Truncated(start, stop) == Truncate((stop - start) * 100, 1000)

\* Lines 167-170: int((stop_test - start_test) * 100), and 1 in place of 0;
\* the two readings of time.time() are in milliseconds
DisplayTime(start, stop) ==
    LET display == Truncate((stop - start) * 100, 1000)
    IN  IF display = 0 THEN 1 ELSE display

\* Lines 162-171: _print_elapsed_time(start_test) called when time.time()
\* reads t; the clock is the wall clock and may have been set back since
\* start_test was taken
_print_elapsed_time ==
    /\ display_time = None
    /\ \E t \in 0..MaxTicks :
         /\ stop_test' = t
         /\ display_time' = <<DisplayTime(start_test, t)>>
    /\ UNCHANGED <<start_test, pc, exit_status, optvars, loopvars, reportvars,
                   poolvars, histvars, leftvars, casevars,
                   outvars, failvars, lockvars, frmvars>>

\* The script's own state while a function or class is checked on its own
MainIdle == MainAt({Defaults}, {<<>>}, {<<>>})

InitTime ==
    /\ MainIdle
    /\ LeftIdle
    /\ CaseIdle
    /\ FailIdle
    /\ LockIdle
    /\ FrmIdle
    /\ start_test \in 0..MaxTicks
    /\ stop_test = 0
    /\ display_time = None

NextTime == _print_elapsed_time

SpecTime == InitTime /\ [][NextTime]_vars

\* --------------------------------------------- _shutdown_running_servers
MaxProcesses == 2   \* most leftover server processes found at startup

CONNECTION_CLOSE_WAIT_TIMEOUT == 4

MaxOpen == 5        \* most probes a port still answers after the kill

\* What the calls of one pass of the loop can do: get_port finds the port or
\* raises MUTLibError, connect succeeds or raises UtilError, the kill command
\* returns a code, the port answers open_for more connections before it is
\* closed, the data directory of the server is under the working directory
\* or not, stop_server returns or raises MUTLibError.
Outcomes ==
    [ port : BOOLEAN, connect : BOOLEAN, ret_code : {0, 1, 128},
      open_for : 0..MaxOpen, datadir : BOOLEAN,
      stop : {"true", "MUTLibError"} ]

\* the wait without its limit: the port is probed until it is closed
RECURSIVE ProbeLoop_Unbounded(_, _)
ProbeLoop_Unbounded(i, open_for) ==
    IF i > open_for
    THEN [probes |-> i, timeout |-> FALSE]
    ELSE ProbeLoop_Unbounded(i + 1, open_for)

\* Lines 123-133, `for _ in range(CONNECTION_CLOSE_WAIT_TIMEOUT)` from its
\* i-th pass on: a probe that connects is followed by a sleep and the next
\* pass, a probe that raises socket.error ends the loop, and the loop's else
\* clause (the timeout warning) is reached when no probe has raised.
RECURSIVE ProbeLoop(_, _)
ProbeLoop(i, open_for) ==
    IF i > CONNECTION_CLOSE_WAIT_TIMEOUT
    THEN [probes |-> i - 1, timeout |-> TRUE]
    ELSE IF i > open_for
    THEN [probes |-> i, timeout |-> FALSE]
    ELSE ProbeLoop(i + 1, open_for)

\* Lines 117-144: the process is killed by command exactly when the
\* connection failed (ok_to_shutdown is False)
ForcedKill(connected, stopped) == ~connected

\* Lines 84-157, one pass of the loop, for the process id and the outcomes e:
\* what was done and how many warnings were printed.
HandleProcess(id, e) ==
    LET connected == e.connect /\ (os_name = "posix" => e.port)
        ok_to_shutdown == connected /\ (os_name = "nt" => e.datadir)
        stopped == IF ok_to_shutdown THEN e.stop ELSE "none"
        killed == ForcedKill(connected, stopped)
        kill_failed == IF os_name = "posix" THEN e.ret_code # 0
                       ELSE e.ret_code \notin {0, 128}
        wait == IF killed /\ os_name = "posix"
                THEN ProbeLoop(1, e.open_for)
                ELSE [probes |-> 0, timeout |-> FALSE]
    IN  [ process |-> id,
          connected |-> connected,
          stop_server |-> stopped,
          killed |-> killed,
          probes |-> wait.probes,
          warnings |-> (IF ~connected THEN 1 ELSE 0)
                       + (IF wait.timeout THEN 1 ELSE 0)
                       + (IF killed /\ kill_failed THEN 1 ELSE 0)
                       + (IF stopped = "MUTLibError" THEN 1 ELSE 0) ]

\* Lines 83-157: the next process of the list is handled
ShutdownProcess ==
    /\ returned = None
    /\ Len(shutdown_log) < Len(processes)
    /\ \E e \in Outcomes :
         shutdown_log' = Append(shutdown_log,
                                HandleProcess(processes[Len(shutdown_log) + 1], e))
    /\ UNCHANGED <<os_name, processes, returned, timevars, casevars, pc,
                   exit_status, optvars, loopvars, reportvars, poolvars, histvars,
                   outvars, failvars, lockvars, frmvars>>

\* Lines 81-82 and 158: the function returns False at once for an empty
\* list and True once it is through a list that is not empty.  (The call of
\* 592-595 is made for a list that is not empty.)
ShutdownReturn ==
    /\ returned = None
    /\ Len(shutdown_log) = Len(processes)
    /\ returned' = <<Len(processes) >= 1>>
    /\ UNCHANGED <<os_name, processes, shutdown_log, timevars, casevars, pc,
                   exit_status, optvars, loopvars, reportvars, poolvars, histvars,
                   outvars, failvars, lockvars, frmvars>>

\* Lines 586-595: the processes found at startup, no process twice
InitLeftover ==
    /\ MainIdle
    /\ TimeIdle
    /\ CaseIdle
    /\ FailIdle
    /\ LockIdle
    /\ FrmIdle
    /\ os_name \in {"posix", "nt"}
    /\ processes \in { q \in SeqsUpTo(1..MaxProcesses, MaxProcesses) :
                          \A i, j \in 1..Len(q) : i # j => q[i] # q[j] }
    /\ shutdown_log = <<>>
    /\ returned = None

NextLeftover ==
    \/ ShutdownProcess
    \/ ShutdownReturn

SpecLeftover == InitLeftover /\ [][NextLeftover]_vars

\* ------------------------------------------------- the test case classes
\* The hooks of the test cases t/copy_db_locks.py, t/frm_reader_base.py and
\* suite/replication/t/failover_instances.py, called the way the loop calls
\* them: check_prerequisites, setup when that returned true, and cleanup as
\* the exit strategy of a setup that returned false or raised MUTLibError.
TestClasses == { "copy_db_locks", "frm_reader_base", "failover_instances" }

\* failover_instances: log + _FAILOVER_LOG for the logs of _LOG_PREFIX
FailoverLogs ==
    { "afail_log.txt", "bfail_log.txt", "cfail_log.txt", "dfail_log.txt" }

CaseFiles == FailoverLogs \cup { "result.txt" }

\* What the methods inherited from classes outside this tree return
Inherited == { "true", "false", "MUTLibError" }

\* the next hook after one that ended as r
AfterHook(h, r) ==
    /\ case_ended' = [case_ended EXCEPT ![h] = r]
    /\ case_pc' = CASE h = "check_prerequisites" /\ r = "true"
                           /\ test_class = "copy_db_locks" -> "setup"
                     [] h = "setup" /\ r \in {"false", "MUTLibError"} -> "cleanup"
                     [] OTHER -> "done"

\* check_prerequisites of the three classes.  compat: the server passes the
\* version and GTID tests; n: servers in the pool; up: how the inherited
\* check_prerequisites ends.
Case_check_prerequisites ==
    /\ case_pc = "check_prerequisites"
    /\ \E compat \in BOOLEAN, n \in 0..2, up \in Inherited :
         CASE test_class = "failover_instances" ->
                \* lines 44-56: the logs of an earlier run are removed after
                \* the version test
                /\ n = 0
                /\ compat \/ up = "true"
                /\ fs' = IF compat THEN fs \ FailoverLogs ELSE fs
                /\ AfterHook("check_prerequisites",
                             IF compat THEN up ELSE "MUTLibError")
                /\ UNCHANGED test_case
           [] test_class = "copy_db_locks" ->
                \* lines 41-49: check_gtid_unsafe() raises or not
                /\ up = "true"
                /\ compat \/ n = 0
                /\ test_case' = IF compat
                                THEN [test_case EXCEPT !.server2 = None,
                                                       !.need_server = (n < 2)]
                                ELSE test_case
                /\ AfterHook("check_prerequisites",
                             IF ~compat THEN "MUTLibError"
                             ELSE IF n >= 1 THEN "true" ELSE "false")
                /\ UNCHANGED fs
           [] OTHER ->
                \* frm_reader_base, lines 40-45
                /\ up = "true"
                /\ compat \/ n = 0
                /\ AfterHook("check_prerequisites",
                             IF ~compat THEN "MUTLibError"
                             ELSE IF n >= 1 THEN "true" ELSE "false")
                /\ UNCHANGED <<test_case, fs>>
    /\ UNCHANGED <<test_class, timevars, leftvars, pc, exit_status, optvars,
                   loopvars, reportvars, poolvars, histvars,
                   outvars, failvars, lockvars, frmvars>>

\* copy_db_locks.setup, lines 51-68.  spawn: spawn_new_servers(2) returns
\* (or raises MUTLibError); sql: read_and_exec_SQL returns (or raises).
Case_setup ==
    /\ case_pc = "setup"
    /\ \E spawn \in BOOLEAN, sql \in BOOLEAN :
         LET spawns == test_case.need_server /\ spawn
             spawn_failed == test_case.need_server /\ ~spawn
         IN  /\ spawns => next_id <= MaxServers
             /\ ~test_case.need_server => spawn
             /\ spawn_failed => sql
             /\ spawned' = IF spawns THEN spawned \cup {next_id} ELSE spawned
             /\ next_id' = IF spawns THEN next_id + 1 ELSE next_id
             /\ test_case' = [test_case EXCEPT
                                 !.res_fname = <<"result.txt">>,
                                 !.server2 = IF spawn_failed THEN None ELSE <<2>>]
             /\ AfterHook("setup",
                          IF spawn_failed \/ ~sql THEN "MUTLibError" ELSE "true")
    /\ UNCHANGED <<test_class, fs, timevars, leftvars, pc, exit_status, optvars,
                   loopvars, reportvars, shutdown_attempts, files_removed,
                   histvars,
                   outvars, failvars, lockvars, frmvars>>

\* os.unlink(name): the file is removed, or OSError is raised when there is
\* no such file
Unlinked(name) == IF name \in fs THEN "true" ELSE "Exception"

\* copy_db_locks.cleanup, lines 132-135: os.unlink(self.res_fname) when
\* res_fname is set, then drop_all(), which returns True
Case_cleanup ==
    /\ case_pc = "cleanup"
    /\ IF test_case.res_fname # None
       THEN /\ fs' = fs \ {test_case.res_fname[1]}
            /\ AfterHook("cleanup", Unlinked(test_case.res_fname[1]))
       ELSE /\ fs' = fs
            /\ AfterHook("cleanup", "true")
    /\ UNCHANGED <<test_class, test_case, timevars, leftvars, pc, exit_status,
                   optvars, loopvars, reportvars, poolvars, histvars,
                   outvars, failvars, lockvars, frmvars>>

\* A test case of one of the classes, just constructed, in a working
\* directory that may hold files of earlier runs
InitCase ==
    /\ MainIdle
    /\ TimeIdle
    /\ LeftIdle
    /\ FailIdle
    /\ LockIdle
    /\ FrmIdle
    /\ test_class \in TestClasses
    /\ test_case = NewCase
    /\ fs \in SUBSET CaseFiles
    /\ case_pc = "check_prerequisites"
    /\ case_ended = NoCalls

NextCase ==
    \/ Case_check_prerequisites
    \/ Case_setup
    \/ Case_cleanup

SpecCase == InitCase /\ [][NextCase]_vars

\* -------------------------------------------- failover_instances.run
\* The consoles of failover_instances.run (lines 111-215), checked on their
\* own.  A console is a child process (subprocess.Popen): proc.poll() is
\* None as long as it has not exited.
_TIMEOUT == 30

Step(op, start, proc, log) ==
    [op |-> op, start |-> start, proc |-> proc, log |-> log]

\* Lines 146-204: the calls of run that start, stop, poll and kill
\* processes and read logs, in their order.  The poll of line 160, after
\* the second console is stopped, is given proc1.
RunSteps ==
    << Step("start_process", FALSE, 1, ""),
       Step("_poll_console", TRUE, 1, ""),
       Step("start_process", FALSE, 2, ""),
       Step("_poll_console", TRUE, 2, ""),
       Step("stop_process", FALSE, 1, ""),
       Step("_poll_console", FALSE, 1, ""),
       Step("stop_process", FALSE, 2, ""),
       Step("_poll_console", FALSE, 1, ""),
       Step("_check_result", FALSE, 2, "b"),
       Step("start_process", FALSE, 3, ""),
       Step("_poll_console", TRUE, 3, ""),
       Step("kill", FALSE, 0, ""),
       Step("stop_process", FALSE, 3, ""),
       Step("_poll_console", FALSE, 3, ""),
       Step("start_process", FALSE, 4, ""),
       Step("_poll_console", TRUE, 4, ""),
       Step("stop_process", FALSE, 4, ""),
       Step("_poll_console", FALSE, 4, ""),
       Step("_check_result", FALSE, 4, "d") >>

Running == run_pc \in 1..Len(RunSteps) /\ run_ended = ""

\* what run's calls leave alone
restvars == <<pc, exit_status, optvars, loopvars, reportvars, poolvars,
              histvars, outvars, timevars, leftvars, casevars, lockvars,
              frmvars>>

At(op) == Running /\ RunSteps[run_pc].op = op

\* the call returns and run goes on to its next call, or returns True
\* (line 215) after the last
NextStep ==
    /\ run_pc' = run_pc + 1
    /\ run_ended' = IF run_pc = Len(RunSteps) THEN "true" ELSE ""
    /\ elapsed' = 0
    /\ done' = FALSE

\* failover.test.start_process: the console is launched
start_process ==
    /\ At("start_process")
    /\ consoles' = [consoles EXCEPT ![RunSteps[run_pc].proc] = "running"]
    /\ NextStep
    /\ UNCHANGED <<seen_exited, log_reads, master_up,
                   restvars>>

\* failover.test.stop_process(.., True): the console is told to end; when
\* it has ended, by the return of the call or later, is not known
stop_process ==
    /\ At("stop_process")
    /\ LET p == RunSteps[run_pc].proc
       IN  \E s \in {"stopping", "exited"} :
             consoles' = [consoles EXCEPT ![p] =
                             IF @ = "exited" THEN @ ELSE s]
    /\ NextStep
    /\ UNCHANGED <<seen_exited, log_reads, master_up,
                   restvars>>

\* a console ends, of its own or because it was told to
ConsoleExits ==
    /\ Running
    /\ \E p \in 1..NumConsoles :
         /\ consoles[p] \in {"running", "stopping"}
         /\ consoles' = [consoles EXCEPT ![p] = "exited"]
    /\ UNCHANGED <<run_pc, elapsed, done, run_ended, seen_exited, log_reads,
                   master_up,
                   restvars>>

\* Lines 85-88: the timeout is raised when elapsed has reached _TIMEOUT,
\* whatever the poll of the same pass observed
TimedOut(e, d) == e >= _TIMEOUT

\* Lines 79-88, one pass of `while not done`: the process is polled once,
\* the pass sleeps and counts the delay of 1, and the timeout is tested.
_poll_console ==
    /\ At("_poll_console")
    /\ LET start == RunSteps[run_pc].start
           proc == RunSteps[run_pc].proc
           poll == IF consoles[proc] = "exited" THEN <<0>> ELSE None
           observed == IF start THEN poll = None ELSE poll # None
       IN  /\ seen_exited' = IF poll # None THEN seen_exited \cup {proc}
                             ELSE seen_exited
           /\ IF TimedOut(elapsed + 1, observed)
              THEN /\ run_ended' = "MUTLibError"
                   /\ done' = observed
                   /\ elapsed' = elapsed + 1
                   /\ UNCHANGED run_pc
              ELSE IF observed
              THEN NextStep
              ELSE /\ done' = FALSE
                   /\ elapsed' = elapsed + 1
                   /\ UNCHANGED <<run_pc, run_ended>>
    /\ UNCHANGED <<consoles, log_reads, master_up,
                   restvars>>

\* Lines 90-108: the log of the given prefix is read
_check_result ==
    /\ At("_check_result")
    /\ log_reads' = Append(log_reads,
                           [log |-> RunSteps[run_pc].log,
                            console |-> RunSteps[run_pc].proc,
                            state |-> consoles[RunSteps[run_pc].proc]])
    /\ NextStep
    /\ UNCHANGED <<consoles, seen_exited, master_up,
                   restvars>>

\* Lines 178-196: the master server is killed by its pid and taken off the
\* pool
KillMaster ==
    /\ At("kill")
    /\ master_up' = FALSE
    /\ NextStep
    /\ UNCHANGED <<consoles, seen_exited, log_reads,
                   restvars>>

InitFailover ==
    /\ MainIdle
    /\ TimeIdle
    /\ LeftIdle
    /\ CaseIdle
    /\ LockIdle
    /\ FrmIdle
    /\ run_pc = 1
    /\ FailStart

NextFailover ==
    \/ start_process
    \/ stop_process
    \/ ConsoleExits
    \/ _poll_console
    \/ _check_result
    \/ KillMaster

SpecFailover == InitFailover /\ [][NextFailover]_vars

\* ------------------------------------------- copy_db_locks.get_result
\* copy_db_locks.run and get_result (lines 70-110), checked on their own for
\* a test case whose setup has returned.
_LOCKTYPES == <<"no-locks", "lock-all", "snapshot">>

\* The databases of the destination server whose names match 'util_%', in
\* the order of SHOW DATABASES: the copy, when the utility has made it, and
\* util_test, when an earlier test has left it there
DestRows ==
    { <<>>, <<"util_db_copy">>, <<"util_test">>,
      <<"util_db_copy", "util_test">> }

Returned(ok, msg) == [ended |-> "returned", ok |-> ok, msg |-> msg]

Raised(kind) == [ended |-> kind, ok |-> FALSE, msg |-> <<>>]

\* Lines 96-110, the loop over self.results from the given entries on.
\* rows: what exec_query returns; query_ok: it returns (or raises UtilError)
RECURSIVE get_result(_, _, _, _)
get_result(res_list, server1, rows, query_ok) ==
    IF res_list = <<>>
    THEN Returned(TRUE, <<>>)
    ELSE IF server1 # None /\ Head(res_list) = 0
    THEN IF ~query_ok
         THEN Raised("MUTLibError")
         ELSE IF rows # <<>> /\ rows[1] # "util_db_copy"
         THEN Returned(FALSE, <<"Result failure.", "Database copy not found.">>)
         ELSE get_result(Tail(res_list), server1, rows, query_ok)
    ELSE Returned(FALSE, <<"Test case returned wrong result.">>)

lockrest == <<pc, exit_status, optvars, loopvars, reportvars, poolvars,
              histvars, outvars, timevars, leftvars, casevars, failvars,
              frmvars>>

\* Lines 76-92, one pass of the loop over _LOCKTYPES: the copy is dropped on
\* the source, the utility is run and its exit code is appended; the
\* destination has the copy or not.  exec_util may raise MUTLibError.
Locks_run ==
    /\ lock_pc = "run"
    /\ Len(lock_results) < Len(_LOCKTYPES)
    /\ \/ \E res \in {0, 1}, rows \in DestRows :
            /\ lock_results' = Append(lock_results, res)
            /\ dest_rows' = rows
            /\ UNCHANGED <<lock_pc, lock_ret>>
       \/ /\ lock_ret' = <<Raised("MUTLibError")>>
          /\ lock_pc' = "done"
          /\ UNCHANGED <<lock_results, dest_rows>>
    /\ UNCHANGED lockrest

\* Line 94: return True
Locks_run_return ==
    /\ lock_pc = "run"
    /\ Len(lock_results) = Len(_LOCKTYPES)
    /\ lock_ret' = <<Returned(TRUE, <<>>)>>
    /\ lock_pc' = "get_result"
    /\ UNCHANGED <<lock_results, dest_rows>>
    /\ UNCHANGED lockrest

\* Lines 96-110, for server1 as check_prerequisites has set it
Locks_get_result ==
    /\ lock_pc = "get_result"
    /\ \E query_ok \in BOOLEAN :
         lock_ret' = <<get_result(lock_results, <<1>>, dest_rows, query_ok)>>
    /\ lock_pc' = "done"
    /\ UNCHANGED <<lock_results, dest_rows>>
    /\ UNCHANGED lockrest

InitLocks ==
    /\ MainIdle
    /\ TimeIdle
    /\ LeftIdle
    /\ CaseIdle
    /\ FailIdle
    /\ FrmIdle
    /\ lock_pc = "run"
    /\ lock_results = <<>>
    /\ dest_rows \in DestRows
    /\ lock_ret = None

NextLocks ==
    \/ Locks_run
    \/ Locks_run_return
    \/ Locks_get_result

SpecLocks == InitLocks /\ [][NextLocks]_vars

\* ------------------------------------------- frm_reader_base.setup
\* frm_reader_base.setup (lines 47-87), called for one test of the class
\* after another in one run of the script.
MaxSetups == 4      \* most calls of setup in a run

\* ServerList.find_server_by_name: the index of the first server registered
\* under the name, -1 when there is none
find_server_by_name(servers, name) ==
    LET found == { i \in 1..Len(servers) : servers[i].name = name }
    IN  IF found = {} THEN -1
        ELSE (CHOOSE i \in found : \A j \in found : i <= j) - 1

\* a server spawned at every call
Reuses_Never(index) == FALSE

\* Line 53: `if index >= 0`
Reuses(index) == index >= 0

\* What the calls of setup can do: show_server_variable("server_id")
\* returns or raises MUTLibError, spawn_new_server returns a server, returns
\* nothing or raises MUTLibError, and the statements that load the data
\* (71-85) go through or raise MUTLibError.
SetupOutcomes ==
    [ server_id : BOOLEAN, spawn : {"server", "nothing", "MUTLibError"},
      load : BOOLEAN ]

\* Lines 47-87, one call: what it found, what spawn_new_server gave ("none"
\* when it was not called), whether add_new_server was called, and how the
\* call ended.
Frm_setup ==
    /\ Len(frm_log) < MaxSetups
    /\ \E e \in SetupOutcomes :
         LET index == find_server_by_name(frm_pool, "frm_test")
             entry(spawn, registered, ended) ==
                 [ found |-> index >= 0, id |-> frm_next_id, spawn |-> spawn,
                   registered |-> registered, ended |-> ended ]
         IN  IF Reuses(index)
             THEN /\ e.spawn = "server"
                  /\ ~e.server_id => e.load
                  /\ frm_log' = Append(frm_log,
                         entry("none", FALSE,
                               IF e.server_id /\ e.load THEN "true"
                               ELSE "MUTLibError"))
                  /\ UNCHANGED <<frm_pool, frm_next_id>>
             ELSE /\ e.server_id
                  /\ e.spawn # "server" => e.load
                  /\ frm_next_id' = frm_next_id + 1
                  /\ frm_pool' =
                        IF e.spawn = "server"
                        THEN Append(frm_pool, [name |-> "frm_test",
                                               id |-> frm_next_id,
                                               spawned |-> TRUE])
                        ELSE frm_pool
                  /\ frm_log' = Append(frm_log,
                         entry(e.spawn, e.spawn = "server",
                               IF e.spawn = "server" /\ e.load THEN "true"
                               ELSE "MUTLibError"))
    /\ UNCHANGED <<pc, exit_status, optvars, loopvars, reportvars, poolvars,
                   histvars, outvars, timevars, leftvars, casevars, failvars,
                   lockvars>>

InitFrm ==
    /\ MainIdle
    /\ TimeIdle
    /\ LeftIdle
    /\ CaseIdle
    /\ FailIdle
    /\ LockIdle
    /\ FrmIdle

NextFrm == Frm_setup

SpecFrm == InitFrm /\ [][NextFrm]_vars

TypeOK ==
    /\ pc \in { "parse", "rejected", "find", "startup", "loop", "check_prerequisites", "setup", "run",
               "result", "cleanup", "summary", "except", "finally", "exited" }
    /\ idx \in 1..(MaxTests + 1)
    /\ Len(test_files) <= MaxFiles
    /\ exit_status \in {0, 1, 2}


\* ------------------------------------------------------------ properties
\* calls and printed are about the test attempted last: the one of the
\* iteration under way, or of the last iteration once the loop has moved on
Attempting == attempted # <<>>

it == attempted[Len(attempted)]

Done == Attempting /\ it \in finished

NumCalls(h) == Len(calls[h])

\* the hook h of that test has been called and its (first) call ended as r
Ended(h, R) == NumCalls(h) >= 1 /\ calls[h][1] \in R

Tags == Range(printed)

Last(list) == list[Len(list)]

\* C1: when the test loop ends, the tests counted as passed plus the entries
\* of failed_tests plus the entries of skipped_tests are as many as the tests
\* the loop attempted.
C1_OutcomesEqualAttempted ==
    pc = "summary" =>
        num_tests_run + Len(failed_tests) + Len(skipped_tests) = Len(attempted)

RECURSIVE CountTag(_, _)
CountTag(out, tag) ==
    IF out = <<>> THEN 0
    ELSE (IF Head(out) = tag THEN 1 ELSE 0) + CountTag(Tail(out), tag)

\* every entry of failed_tests stands for one FAIL written, every entry of
\* skipped_tests for one SKIP written
ListsMatchTags ==
    /\ Len(failed_tests) = written["FAIL"]
    /\ Len(skipped_tests) = written["SKIP"]

\* the name of the test is the entry appended last to the list
InList(list) ==
    Attempting /\ list # <<>> /\ Last(list) = test_files[it].name

NotCalled(H) == \A h \in H : NumCalls(h) = 0

TornDown ==
    /\ files_removed = 1
    /\ \A s \in spawned : shutdown_attempts[s] = 1

\* ---- C2
PrereqFailed == Ended("check_prerequisites", {"false", "MUTLibError"})

\* C2 (as claimed): a test whose check_prerequisites returns false or raises
\* a MUTLibError is reported SKIP and never FAIL, its setup, run, get_result
\* and record are not called, and its cleanup is called exactly once.
C2_PrereqSkipCleanupOnce ==
    PrereqFailed =>
        /\ "SKIP" \in Tags /\ "FAIL" \notin Tags
        /\ NotCalled({"setup", "run", "get_result", "record"})
        /\ NumCalls("cleanup") = 1

\* C2 (amended): a test whose check_prerequisites returns false or raises a
\* MUTLibError is reported SKIP exactly once and never FAIL, its name is
\* appended to skipped_tests, and none of setup, run, get_result, record and
\* cleanup is called for it.
C2_PrereqSkipNoCleanup ==
    /\ ListsMatchTags
    /\ PrereqFailed =>
            /\ CountTag(printed, "SKIP") = 1 /\ "FAIL" \notin Tags
            /\ InList(skipped_tests)
            /\ NotCalled({"setup", "run", "get_result", "record", "cleanup"})
            /\ Done

C2_Witness ==
    /\ Ended("check_prerequisites", {"MUTLibError"})
    /\ Done
    /\ it = 2
    /\ pc = "exited"

\* ---- C3
SetupFailed == Ended("setup", {"false", "MUTLibError"})

\* the cleanup call of the exit strategy has returned
SetupCleanedUp == Ended("cleanup", {"true", "false"})

\* C3: for a test whose setup returns false or raises a MUTLibError, run,
\* get_result and record are never called, cleanup is called exactly once,
\* SKIP is written once and FAIL never, and the name is appended to
\* skipped_tests (the lists hold one entry per tag written).
C3_SetupFailureSkips ==
    /\ ListsMatchTags
    /\ SetupFailed =>
            /\ NotCalled({"run", "get_result", "record"})
            /\ NumCalls("cleanup") = 1
            /\ CountTag(printed, "SKIP") = 1 /\ "FAIL" \notin Tags
            /\ InList(skipped_tests)
            /\ SetupCleanedUp => Done

C3_Witness ==
    /\ Ended("setup", {"MUTLibError"})
    /\ Ended("cleanup", {"true"})
    /\ Done
    /\ it = 1
    /\ pc = "loop"

\* ---- C4
\* C4 (as claimed): whatever the options, every server registered as spawned
\* when the loop is left has received exactly one shutdown attempt when the
\* process exits.
C4_EverySpawnedShutDown ==
    pc = "exited" => \A s \in spawned : shutdown_attempts[s] = 1

\* C4 (amended): unless --skip-cleanup is given, every server registered as
\* spawned when the loop is left has received exactly one shutdown attempt
\* when the process exits, however the run ended.
C4_SpawnedShutDownUnlessSkipCleanup ==
    /\ pc = "exited" /\ ~opt.skip_cleanup =>
           \A s \in spawned : shutdown_attempts[s] = 1
    /\ \A s \in 1..MaxServers : shutdown_attempts[s] <= 1
    /\ pc # "exited" => \A s \in 1..MaxServers : shutdown_attempts[s] = 0

C4_Witness ==
    /\ pc = "exited"
    /\ ~opt.skip_cleanup
    /\ spawned # {}
    /\ raised # NoRaise

\* ---- C5
Escaped == raised # NoRaise /\ raised[2] # "MUTLibError"

\* C5 (as claimed): once an exception other than a MUTLibError has left the
\* try block no test is started any more, the trace is printed, the spawned
\* servers are shut down and the temporary files removed, and the process
\* exits with a non-zero status.
C5_CrashTearsDown ==
    Escaped =>
        /\ pc \in {"except", "finally", "exited"}
        /\ pc \in {"finally", "exited"} => trace_printed
        /\ pc = "exited" => exit_status # 0 /\ TornDown

\* C5 (amended): the same, except that the shutdown of the spawned servers
\* and the removal of the temporary files are executed only when
\* --skip-cleanup is not given.
C5_CrashTearsDownUnlessSkipCleanup ==
    Escaped =>
        /\ pc \in {"except", "finally", "exited"}
        /\ pc \in {"finally", "exited"} => trace_printed
        /\ pc = "exited" => exit_status # 0
        /\ pc = "exited" /\ ~opt.skip_cleanup => TornDown
        /\ pc = "exited" /\ opt.skip_cleanup =>
               files_removed = 0 /\ \A s \in spawned : shutdown_attempts[s] = 0

C5_Witness ==
    /\ Escaped
    /\ raised[1] = "run"
    /\ pc = "exited"
    /\ spawned # {}
    /\ ~opt.skip_cleanup
    /\ Len(test_files) > idx

\* ---- C6
\* C6: a MUTLibError raised by check_prerequisites, setup, run, get_result or
\* cleanup (the cleanup call after a failed setup included) never leaves the
\* try block.
C6_DomainErrorsStayInIteration ==
    raised # NoRaise =>
        ~ ( /\ raised[2] = "MUTLibError"
            /\ raised[1] \in {"check_prerequisites", "setup", "run",
                              "get_result", "cleanup"} )

\* ---- C7
StatusTags == {"pass", "FAIL", "SKIP", "RECORD"}

RECURSIVE Filter(_, _)
Filter(out, T) ==
    IF out = <<>> THEN <<>>
    ELSE IF Head(out) \in T THEN <<Head(out)>> \o Filter(Tail(out), T)
    ELSE Filter(Tail(out), T)

\* the step in which the cleanup() call of lines 806-811 returns a value or
\* raises a MUTLibError
CleanupReturns ==
    /\ pc = "cleanup"
    /\ pc' \in {"loop", "summary"}

RunRaised == Ended("run", {"MUTLibError"})

FailedOnce ==
    /\ CountTag(printed, "FAIL") = 1
    /\ InList(failed_tests)

\* C8 (as claimed): whenever run raises a MUTLibError, in every mode and at
\* every verbosity, the test is reported FAIL, its name is in failed_tests
\* and neither get_result nor record is called.
C8_RunErrorFailsAlways ==
    RunRaised =>
        /\ FailedOnce
        /\ NotCalled({"get_result", "record"})

\* C8 (amended): whenever run raises a MUTLibError at a verbosity below 2,
\* with or without --record, the test is reported FAIL once, its name is
\* appended to failed_tests and neither get_result nor record is called; at
\* verbosity 2 or more the error is dropped and no FAIL is reported for it.
C8_RunErrorFailsUnlessDebug ==
    /\ ListsMatchTags
    /\ RunRaised =>
            IF debug_mode
            THEN "FAIL" \notin Tags /\ NumCalls("get_result") = 0
            ELSE FailedOnce /\ NotCalled({"get_result", "record"})

C8_Witness ==
    /\ RunRaised
    /\ opt.record
    /\ ~debug_mode
    /\ Done
    /\ FailedOnce

\* ---- C9
\* the result phase of the test is over
PastResult == Done \/ pc = "cleanup"

\* C9 (as claimed): whenever run returns, whatever the value, exactly one of
\* record and get_result is called, and a mismatch reported by get_result
\* makes the test FAILED.
C9_RunReturnedOneResultHook ==
    /\ (Ended("run", {"true", "false"}) /\ PastResult) =>
           NumCalls("record") + NumCalls("get_result") = 1
    /\ Ended("get_result", {"false"}) => FailedOnce

\* C9 (amended): whenever run returns a true value, record is called once
\* (and get_result not) in record mode, get_result is called once (and
\* record not) in comparison mode below verbosity 2, and neither is called
\* at verbosity 2 or more without --record; whenever run returns a false
\* value neither is called; a mismatch reported by get_result makes the test
\* FAILED.
C9_ResultHookByMode ==
    /\ ListsMatchTags
    /\ (Ended("run", {"true"}) /\ PastResult) =>
           /\ NumCalls("record") = (IF opt.record THEN 1 ELSE 0)
           /\ NumCalls("get_result") =
                  (IF ~opt.record /\ ~debug_mode THEN 1 ELSE 0)
    /\ Ended("run", {"false"}) => NotCalled({"record", "get_result"})
    /\ Ended("get_result", {"false"}) => FailedOnce

C9_Witness ==
    /\ Ended("run", {"true"})
    /\ Ended("get_result", {"false"})
    /\ Done
    /\ FailedOnce

Matching(marker) ==
    { i \in 1..Len(test_files) : StartsWith(test_files[i].name, marker) }

Min(S) == CHOOSE m \in S : \A n \in S : m <= n

FirstPos ==
    IF opt.start_test # None /\ Matching(opt.start_test) # {}
    THEN Min(Matching(opt.start_test))
    ELSE 1

StopPos ==
    LET from == { i \in Matching(opt.stop_test) : i >= FirstPos }
    IN  IF opt.stop_test # None /\ from # {}
        THEN Min(from)
        ELSE Len(test_files) + 1

Window == { i \in 1..Len(test_files) : FirstPos <= i /\ i < StopPos }

LoopOver == pc \in {"summary", "finally", "exited"} /\ raised = NoRaise

\* C11: with --force, as long as no exception has left the try block, every
\* test of the start/stop window the loop has gone past has been attempted,
\* whatever tests failed or were skipped before it, and the loop ends only
\* when the worklist is exhausted.
C11_ForceAttemptsWholeWindow ==
    (opt.force /\ pc # "startup" /\ raised = NoRaise) =>
        /\ \A i \in Window : i < idx => i \in Range(attempted)
        /\ Range(attempted) \subseteq Window
        /\ LoopOver => idx = Len(test_files) + 1

C11_Witness ==
    /\ opt.force
    /\ LoopOver
    /\ Len(test_files) = 2
    /\ attempted = <<1, 2>>
    /\ written["FAIL"] = 2

\* ---- C12
\* rows of the manifest whose first field is the suite-qualified name of the
\* test attempted last
DisabledRows ==
    IF Attempting
    THEN CountMatches(disable_list, QualifiedName(test_files[it]))
    ELSE 0

\* the test case of the test attempted last was created (lines 688-690)
Created == Attempting /\ ~(raised # NoRaise /\ raised[1] = "import")

\* C12: a test whose suite-qualified name is the first field of a row of the
\* disabled manifest is, once its test case is created, reported SKIP with
\* the message that it is disabled (once per such row), its name is appended
\* to skipped_tests, no hook of it is called and its iteration is over.
C12_DisabledIsSkipped ==
    /\ ListsMatchTags
    /\ (Created /\ DisabledRows > 0) =>
           /\ CountTag(printed, "SKIP") = DisabledRows
           /\ CountTag(printed, "Test marked as disabled.") = DisabledRows
           /\ "FAIL" \notin Tags
           /\ InList(skipped_tests)
           /\ NotCalled(Hooks)
           /\ Done

C12_Witness ==
    /\ Created
    /\ DisabledRows = 1
    /\ Len(disable_list) = 1
    /\ Done
    /\ skipped_tests = <<test_files[it].name>>
    /\ pc = "loop"

\* ---- C13
\* C13: with --skip-long, a test whose is_long() returns true is reported
\* SKIP once with the message that it is a long running test, its name is
\* appended to skipped_tests, no other hook of it is called and its
\* iteration is over, while a test whose is_long() returns false goes on to
\* check_prerequisites; without --skip-long is_long() is never called, so
\* its value cannot change the phases of a test.
C13_LongSkippedOnlyWhenSuppressed ==
    /\ ListsMatchTags
    /\ Ended("is_long", {"true"}) =>
           /\ opt.skip_long
           /\ CountTag(printed, "SKIP") = 1
           /\ CountTag(printed, "Test marked as long running test.") = 1
           /\ "FAIL" \notin Tags
           /\ InList(skipped_tests)
           /\ NotCalled(Hooks \ {"is_long"})
           /\ Done
    /\ Ended("is_long", {"false"}) =>
           /\ "Test marked as long running test." \notin Tags
           /\ pc = "check_prerequisites" \/ NumCalls("check_prerequisites") = 1
    /\ ~opt.skip_long => NumCalls("is_long") = 0
    /\ NumCalls("is_long") <= 1

C13_Witness ==
    /\ opt.skip_long
    /\ Ended("is_long", {"true"})
    /\ Done
    /\ it = 2
    /\ skipped_tests = <<test_files[2].name>>
    /\ num_tests_run = 1

\* ---- C14
StartMarkerMatches ==
    opt.start_test # None /\ Matching(opt.start_test) # {}

\* C14: with a start marker that some test of the worklist begins with, no
\* test ordered before the first such test is attempted (imported,
\* instantiated) and nothing is reported before a test is attempted; the
\* first test attempted is that first matching test, and it is attempted as
\* soon as the loop has gone past it unless the stop marker stops the run
\* there.
C14_StartMarkerBypasses ==
    /\ attempted = <<>> =>
           /\ printed = <<>> /\ failed_tests = <<>> /\ skipped_tests = <<>>
           /\ written["FAIL"] = 0 /\ written["SKIP"] = 0
           /\ NotCalled(Hooks)
    /\ (StartMarkerMatches /\ pc # "startup") =>
           /\ \A k \in 1..Len(attempted) : attempted[k] >= FirstPos
           /\ attempted # <<>> => attempted[1] = FirstPos
           /\ (idx > FirstPos /\ StopPos > FirstPos) => attempted # <<>>

C14_Witness ==
    /\ StartMarkerMatches
    /\ FirstPos = 2
    /\ attempted = <<2>>
    /\ idx = 3
    /\ pc = "exited"

\* ---- C15
\* C15: with a stop marker that some test of the worklist begins with, no
\* test at or after the first such test is attempted, whatever the start
\* marker.
C15_StopMarkerStops ==
    (pc # "startup" /\ opt.stop_test # None) =>
        \A k \in 1..Len(attempted) :
            attempted[k] < Min(Matching(opt.stop_test))

\* ---- C16
\* place of a hook in the order of the lifecycle
Rank(h) ==
    CASE h = "is_long" -> 0
      [] h = "check_prerequisites" -> 1
      [] h = "setup" -> 2
      [] h = "run" -> 3
      [] h \in {"record", "get_result"} -> 4
      [] h = "cleanup" -> 5

\* a step inside the iteration of one test
SameTest == attempted' = attempted

\* C16: for every test, each hook is called at most once and at most one of
\* record and get_result is called; setup is called only after
\* check_prerequisites returned true, run only after setup returned true,
\* record and get_result only after run, cleanup only after setup; and a
\* hook is never called once a hook of the same or a later place in the
\* order check_prerequisites, setup, run, record/get_result, cleanup has
\* been called for the test.
C16_HooksInFixedOrder ==
    /\ [](/\ \A h \in Hooks : NumCalls(h) <= 1
          /\ NumCalls("record") + NumCalls("get_result") <= 1
          /\ NumCalls("setup") = 1 => Ended("check_prerequisites", {"true"})
          /\ NumCalls("run") = 1 => Ended("setup", {"true"})
          /\ NumCalls("record") + NumCalls("get_result") = 1 =>
                 NumCalls("run") = 1
          /\ NumCalls("cleanup") = 1 => NumCalls("setup") = 1)
    /\ [][SameTest =>
            \A h \in Hooks :
                Len(calls'[h]) > Len(calls[h]) =>
                    \A g \in Hooks : Rank(g) >= Rank(h) => calls[g] = <<>>
         ]_vars

C16_Witness ==
    /\ Ended("check_prerequisites", {"true"})
    /\ Ended("setup", {"true"})
    /\ Ended("run", {"true"})
    /\ Ended("get_result", {"true"})
    /\ Ended("cleanup", {"true"})
    /\ NumCalls("record") = 0
    /\ Done
    /\ it = 2

\* ---- C17
\* C17: in record mode a worklist of more than one test is never executed
\* (the invocation is rejected before any test is attempted), and record()
\* is called for at most one test of a run (RECORD is written just before
\* every call of record()).
C17_RecordOneTest ==
    opt.record =>
        /\ Len(test_files) > 1 => attempted = <<>>
        /\ written["RECORD"] <= 1

\* ---- C18
\* C18 (as claimed): at debug verbosity a worklist of more than one test is
\* never executed.
C18_DebugMultiRejected ==
    (debug_mode /\ Len(test_files) > 1) => attempted = <<>>

\* C18 (amended): at debug verbosity an invocation with more than one
\* positional argument is rejected by the first step, with exit status 2 and
\* before the tests are looked for or any test is attempted; with at most
\* one positional argument debug verbosity alone rejects nothing.
C18_DebugListRejected ==
    /\ [](/\ pc = "rejected" =>
                /\ exit_status = 2
                /\ test_files = <<>> /\ attempted = <<>> /\ NotCalled(Hooks)
                /\ (debug_mode /\ Len(args) > 1) \/ (opt.record /\ Len(args) # 1)
          /\ pc = "find" => ~(debug_mode /\ Len(args) > 1))
    /\ [][(pc = "parse" /\ debug_mode /\ Len(args) > 1) => pc' = "rejected"]_vars
    /\ [][(pc = "parse" /\ ~opt.record /\ Len(args) <= 1) => pc' = "find"]_vars

C18_Witness ==
    /\ pc = "rejected"
    /\ debug_mode /\ ~opt.record
    /\ Len(args) = 2
    /\ Len(find_tests(files, args, opt)) = 2

\* ---- C19
\* C19: the status handed to sys.exit is 0 unless an exception has left the
\* try block (or the command line was rejected): whatever the entries of
\* failed_tests and skipped_tests, whether the worklist was exhausted or the
\* loop stopped at the first failure without --force.
C19_ExitZeroWithoutCrash ==
    /\ (raised = NoRaise /\ pc # "rejected") => exit_status = 0
    /\ (pc = "exited" /\ raised # NoRaise) => exit_status = 1

C19_Witness ==
    /\ pc = "exited"
    /\ raised = NoRaise
    /\ exit_status = 0
    /\ opt.force
    /\ failed_tests # <<>>
    /\ skipped_tests # <<>>
    /\ idx = Len(test_files) + 1

\* ---- C20
TestRef(f) == [suite |-> f.suite, name |-> f.name]

\* a file that is a test: a .py file that is neither a template nor one of
\* the library files
TestFile(f) ==
    /\ f.ext = ".py"
    /\ ~EndsWith(f.name, Template)
    /\ f.name \notin {Mutlib, DunderInit}

\* the worklist has just been built from args and files
Found == pc = "startup" /\ (args # <<>> \/ files # <<>>)

\* C20: the worklist never holds a name ending in _template, mutlib or
\* __init__; when it has just been built, every entry of it is the reference
\* of a .py test file of the listing, no reference is there twice, and with
\* no positional argument every .py test file of the listing is in it; over
\* t/aa.py, t/b_template.py and t/mutlib.py it is exactly <<main.aa>>.
C20_FindTestsExcludes ==
    /\ \A k \in 1..Len(test_files) :
           /\ ~EndsWith(test_files[k].name, Template)
           /\ test_files[k].name \notin {Mutlib, DunderInit}
    /\ Found =>
           /\ \A k \in 1..Len(test_files) :
                  \E f \in Range(files) : TestFile(f) /\ TestRef(f) = test_files[k]
           /\ \A j, k \in 1..Len(test_files) :
                  j # k => test_files[j] # test_files[k]
           /\ args = <<>> =>
                  \A f \in Range(files) :
                      TestFile(f) => TestRef(f) \in Range(test_files)
           /\ ( /\ args = <<>>
                /\ Range(files) =
                       { [suite |-> "main", name |-> <<1, 1>>, ext |-> ".py"],
                         [suite |-> "main", name |-> <<2>> \o Template, ext |-> ".py"],
                         [suite |-> "main", name |-> Mutlib, ext |-> ".py"] } )
               => test_files = <<[suite |-> "main", name |-> <<1, 1>>]>>

C20_Witness ==
    /\ Found
    /\ args = <<>>
    /\ Range(files) =
           { [suite |-> "main", name |-> <<1, 1>>, ext |-> ".py"],
             [suite |-> "main", name |-> <<2>> \o Template, ext |-> ".py"],
             [suite |-> "main", name |-> Mutlib, ext |-> ".py"] }
    /\ test_files = <<[suite |-> "main", name |-> <<1, 1>>]>>

\* ---- C21
\* find_tests run again over the directories and with the arguments and
\* options of the state
FoundAgain ==
    find_tests(Walk(files, TRUE), args, opt) \o find_tests(Walk(files, FALSE), args, opt)

PerformanceFile == [suite |-> "performance", name |-> <<2, 1>>, ext |-> ".py"]

\* C22: the worklist holds a test of the suite performance only if --suite
\* was given and names performance: with no --suite, or with a --suite list
\* without it, no test of that suite is in the worklist, whatever
\* positional arguments and name filters were given.
C22_PerformanceOnlyOnRequest ==
    \A k \in 1..Len(test_files) :
        test_files[k].suite = "performance"
            => opt.suites # None /\ "performance" \in Range(opt.suites)

C22_Witness ==
    /\ Found
    /\ PerformanceFile \in Range(files)
    /\ args = <<BareName(<<2, 1>>)>>
    /\ opt.suites = None
    /\ opt.skip_test = None /\ opt.skip_suites = None /\ opt.skip_tests = None
    /\ opt.like = None
    /\ test_files = <<>>

\* performance.ba is found when --suite names performance
C22_Requested ==
    /\ Found
    /\ opt.suites = <<"performance">>
    /\ TestRef(PerformanceFile) \in Range(test_files)

\* ---- C23
\* the file passes every filter of find_tests other than --skip-tests
PassesOtherFilters(f) == IsTest(f, args, [opt EXCEPT !.skip_tests = None])

\* C23: with --skip-tests given and neither --do-tests nor --run-tests-like,
\* a file that passes the other filters is in the worklist exactly when its
\* name begins with none of the prefixes given.
C23_SkipTestsExcludesEveryPrefix ==
    (Found /\ opt.skip_tests # None /\ opt.wildcard = None /\ opt.like = None) =>
        \A f \in Range(files) :
            PassesOtherFilters(f) =>
                ( TestRef(f) \in Range(test_files)
                    <=> \A i \in 1..Len(opt.skip_tests) :
                            ~StartsWith(f.name, opt.skip_tests[i]) )

\* ---- C24
\* C24: the tests are attempted in the order of their (suite, name) pairs,
\* ascending by default and descending with --sort=desc, the suite name
\* main taking its alphabetical place among the other suite names: of any
\* two tests attempted, the one attempted first has the smaller pair (the
\* greater one when descending).
C24_ExecutedInSortOrder ==
    \A i, j \in 1..Len(attempted) :
        i < j =>
            LET t == test_files[attempted[i]]
                u == test_files[attempted[j]]
            IN  IF opt.sort = "desc" THEN TupleLess(u, t) ELSE TupleLess(t, u)

C24_Witness ==
    /\ pc = "exited"
    /\ opt.sort = "asc"
    /\ attempted = <<1, 2>>
    /\ test_files[1].suite = "experimental"
    /\ test_files[2].suite = "main"
    /\ Ended("run", {"true"})

\* ---- C25
\* the elapsed time in milliseconds of a call that has printed
Elapsed == stop_test - start_test

\* C25: the value displayed is the elapsed time in whole hundredths of a
\* second, truncated, with 1 displayed in place of 0; whenever the elapsed
\* time is not negative the value displayed is at least 1.
C25_DisplayAtLeastOne ==
    (display_time # None /\ Elapsed >= 0) =>
        /\ display_time[1] >= 1
        /\ display_time[1] = (IF Elapsed < 10 THEN 1 ELSE Elapsed \div 10)
        /\ Elapsed >= 10 =>
               /\ display_time[1] * 10 <= Elapsed
               /\ Elapsed < (display_time[1] + 1) * 10

C25_Witness ==
    /\ display_time = <<1>>
    /\ Elapsed = 0

\* ---- C26
\* C26: for a test whose iteration has ended, exactly one status tag (pass,
\* FAIL, SKIP or RECORD) and exactly one elapsed time were written.
C26_OneTagOneTime ==
    Done =>
        /\ Len(Filter(printed, StatusTags)) = 1
        /\ CountTag(printed, "time") = 1

\* ---- C27
\* C27: once the leftover processes have been gone through, every process
\* of the list was handled, and every process whose connection or whose
\* graceful shutdown failed was killed by force.
C27_EscalatesOnEveryFailure ==
    returned = <<TRUE>> =>
        /\ Len(shutdown_log) = Len(processes)
        /\ \A i \in 1..Len(shutdown_log) :
               /\ shutdown_log[i].process = processes[i]
               /\ (~shutdown_log[i].connected
                     \/ shutdown_log[i].stop_server = "MUTLibError")
                    => shutdown_log[i].killed

\* ---- C28
\* C28: no server process is killed by a command of the script itself: a
\* process is only ever ended through the pool (stop_server).
C28_KilledOnlyThroughPool ==
    \A i \in 1..Len(shutdown_log) : ~shutdown_log[i].killed

\* ---- C29
\* C29: a call of check_prerequisites leaves the shared state as it is: the
\* files of the working directory, the servers of the pool and the pool's
\* id allocator.
C29_PrerequisitesReadOnly ==
    [][case_pc = "check_prerequisites" =>
          /\ fs' = fs
          /\ spawned' = spawned
          /\ next_id' = next_id]_vars

\* ---- C30
\* C30: the cleanup call made after a setup that failed with a domain error
\* returns true or false.
C30_CleanupAfterFailedSetupReturns ==
    (case_ended["setup"] \in {"false", "MUTLibError"}
        /\ case_ended["cleanup"] # "")
            => case_ended["cleanup"] \in {"true", "false"}

\* ---- C31
\* a hook in which the test acquires a server (connects to one, spawns one
\* or takes one of the pool) ended with the MUTLibError of a failed
\* acquisition
AcquisitionFailed ==
    /\ Attempting
    /\ \E h \in {"check_prerequisites", "setup", "run"} :
           Ended(h, {"MUTLibError"})

\* C31: a test one of whose hooks check_prerequisites, setup or run failed to
\* acquire a server is never reported FAIL, and is reported SKIP once its
\* iteration has ended.
C31_ResourceErrorSkips ==
    AcquisitionFailed =>
        /\ "FAIL" \notin Tags
        /\ Done => "SKIP" \in Tags

\* ---- C32
\* Runs with and without markers, over worklists that hold a test the
\* marker is a prefix of and worklists that hold none; no test is disabled
\* and the servers are shut down at the end
MarkerOptions == { o \in Options : ~o.skip_cleanup }

InitMarker == InitFrom(MarkerOptions, Worklists, {<<>>})

SpecMarker == InitMarker /\ [][Next]_vars

\* the script is past the validation of the markers
Validated == pc \notin {"parse", "rejected", "find", "startup"}

\* The positions the loop of 656-670 lets through when it starts with the
\* markers start and stop as they are given, none of them validated: none
\* before the first test that begins with start (none at all when no test
\* does), none from the first test on, from there, that begins with stop.
Passing(start, stop) ==
    LET first == IF start = None THEN 1
                 ELSE IF Matching(start) = {} THEN Len(test_files) + 1
                 ELSE Min(Matching(start))
        stops == IF stop = None THEN {}
                 ELSE { i \in Matching(stop) : i >= first }
        last == IF stops = {} THEN Len(test_files) + 1 ELSE Min(stops)
    IN  { i \in 1..Len(test_files) : first <= i /\ i < last }

NotFound(marker) == marker # None /\ Matching(marker) = {}

\* the tests attempted are those a run lets through that is given no start
\* marker in place of one that is not found, and the stop marker of opt
AttemptsAsWithout ==
    LET through == Passing(IF NotFound(opt.start_test) THEN None
                           ELSE opt.start_test,
                           opt.stop_test)
    IN  /\ Range(attempted) \subseteq through
        /\ \A i \in through : i < idx => i \in Range(attempted)

\* C32: the validation warns about a start marker, and about a stop marker,
\* that no test of the worklist begins with, and about no other; it switches
\* the start sequence off for such a start marker and resets such a stop
\* marker to None; from then on the tests attempted are those a run without
\* the marker lets through.
C32_UnmatchedMarkerDisabled ==
    /\ [][pc = "startup" =>
            /\ warnings' =
                 (IF NotFound(opt.start_test)
                  THEN <<NotFoundWarning("--start-test", opt.start_test)>>
                  ELSE <<>>)
                 \o (IF NotFound(opt.stop_test)
                     THEN <<NotFoundWarning("--stop-test", opt.stop_test)>>
                     ELSE <<>>)
            /\ NotFound(opt.start_test) => ~start_sequence'
            /\ opt'.stop_test =
                   IF NotFound(opt.stop_test) THEN None ELSE opt.stop_test
            /\ opt'.start_test = opt.start_test]_vars
    /\ []((Validated /\ raised = NoRaise) => AttemptsAsWithout)

C32_Witness ==
    /\ NotFound(opt.start_test)
    /\ LoopOver
    /\ attempted = <<1, 2>>

\* ---- C33
ResultRaised == Ended("get_result", {"MUTLibError"})

\* the lines written for the failure of get_result(): the tag at once, the
\* strings once cleanup() is through
EstablishedError ==
    <<"FAIL", "ERROR:", "Test results cannot be established.", "e.errmsg">>

\* C33: a test whose get_result raised MUTLibError is tagged FAIL once and
\* is the last entry of failed_tests, it is not counted as passed, and
\* cleanup is called once; when its iteration has ended, "Test results
\* cannot be established." and the message of the error have been written,
\* and the loop has stopped there unless --force is given.
C33_ResultErrorFails ==
    ResultRaised =>
        /\ FailedOnce
        /\ "pass" \notin Tags
        /\ ~run_ok
        /\ NumCalls("cleanup") = (IF pc = "cleanup" THEN 0 ELSE 1)
        /\ Done =>
               /\ Filter(printed, Range(EstablishedError)) = EstablishedError
               /\ Ended("cleanup", {"true", "false", "MUTLibError"})
               /\ ~opt.force => pc \in {"summary", "finally", "exited"} /\ idx = it
               /\ opt.force => idx > it

C33_Witness ==
    /\ ResultRaised
    /\ Done
    /\ ~opt.force
    /\ pc = "summary"
    /\ it = 1 /\ Len(test_files) = 2

\* ---- C34
\* The function runs on its own thread of control: a step that can be taken
\* is taken.
SpecLeftoverFair ==
    InitLeftover /\ [][NextLeftover]_vars /\ WF_vars(NextLeftover)

\* C34: _shutdown_running_servers returns; no process is probed more than
\* CONNECTION_CLOSE_WAIT_TIMEOUT times, and none is probed that was not
\* killed by command; the value returned is False for an empty list of
\* processes, and True, with every process of the list handled, otherwise.
C34_ShutdownTerminates ==
    /\ <>(returned # None)
    /\ [](\A i \in 1..Len(shutdown_log) :
              /\ shutdown_log[i].probes <= CONNECTION_CLOSE_WAIT_TIMEOUT
              /\ shutdown_log[i].probes > 0 => shutdown_log[i].killed)
    /\ [](returned # None =>
              /\ returned[1] = (processes # <<>>)
              /\ Len(shutdown_log) = Len(processes))

C34_Witness ==
    /\ returned = <<TRUE>>
    /\ Len(processes) = 2
    /\ shutdown_log[1].probes = CONNECTION_CLOSE_WAIT_TIMEOUT
    /\ shutdown_log[1].warnings >= 2
    /\ shutdown_log[2].probes = 1

\* ---- C35
\* C35: record() is called only for a test whose run() returned a true
\* value: never after a run() that raised MUTLibError or returned a false
\* value, at whatever verbosity.
C35_RecordOnlyAfterGoodRun ==
    NumCalls("record") >= 1 => Ended("run", {"true"})

\* ---- C36
AllPassedLine ==
    Line("All tests passed.", Len(test_files), Len(test_files), <<>>)

\* C36: the line "All N tests passed." is written only when each of the N
\* tests of the worklist was attempted and counted as passed.
C36_AllPassedMeansAllPassed ==
    (summary # None /\ AllPassedLine \in Range(summary[1])) =>
        /\ num_tests_run = Len(test_files)
        /\ Len(attempted) = Len(test_files)

\* ---- C37
\* C37: _poll_console makes at most _TIMEOUT polls, and it raises the
\* timeout only when no poll of the call observed the state awaited.
C37_PollRaisesOnlyUnobserved ==
    /\ elapsed <= _TIMEOUT
    /\ run_ended = "MUTLibError" => ~done

\* ---- C38
\* C38: a log is read by _check_result only when a poll has found the
\* console that writes it exited; the console has then ended.
C38_LogReadAfterConsoleEnded ==
    \A i \in 1..Len(log_reads) :
        /\ log_reads[i].console \in seen_exited
        /\ log_reads[i].state = "exited"

\* ---- C39
GotResult == lock_pc = "done" /\ lock_ret # None /\ Len(lock_results) = Len(_LOCKTYPES)

\* C39: get_result returns a pass only when every exit code recorded by run
\* is 0 and the destination server has the database util_db_copy.
C39_PassMeansCopied ==
    (GotResult /\ lock_ret[1].ended = "returned" /\ lock_ret[1].ok) =>
        /\ \A i \in 1..Len(lock_results) : lock_results[i] = 0
        /\ "util_db_copy" \in Range(dest_rows)

\* ---- C40
FrmServers == { i \in 1..Len(frm_pool) : frm_pool[i].name = "frm_test" }

RegisteredBefore(i) == \E j \in 1..(i - 1) : frm_log[j].registered

\* C40: over the calls of frm_reader_base.setup of a run, the pool holds at
\* most one server named frm_test, registered as spawned; a call finds the
\* server exactly when an earlier call has registered it, and then spawns
\* none; a call that does not find it calls spawn_new_server, and registers
\* the server exactly when one is returned; a spawn that returns nothing
\* ends the call with MUTLibError.
C40_OneFrmTestServer ==
    /\ Cardinality(FrmServers) <= 1
    /\ Cardinality(FrmServers)
           = Cardinality({ i \in 1..Len(frm_log) : frm_log[i].registered })
    /\ \A i \in FrmServers : frm_pool[i].spawned
    /\ \A i \in 1..Len(frm_log) :
           /\ frm_log[i].found <=> RegisteredBefore(i)
           /\ frm_log[i].found => frm_log[i].spawn = "none"
           /\ ~frm_log[i].found => frm_log[i].spawn # "none"
           /\ frm_log[i].registered <=> frm_log[i].spawn = "server"
           /\ frm_log[i].spawn = "nothing" => frm_log[i].ended = "MUTLibError"

C40_Witness ==
    /\ Len(frm_log) = 3
    /\ frm_log[1].spawn = "nothing"
    /\ frm_log[2].spawn = "server"
    /\ frm_log[3].found
    /\ frm_log[3].ended = "true"

====
